---- MODULE Spec2Model ----
(***************************************************************************)
(* Model of the preview server of Acode, src/src/lib/run.js.               *)
(*                                                                         *)
(* run() creates one preview session: a closure over the variables         *)
(* isLoading, queue, port, filename, pathName, ... and the nested          *)
(* functions next, startConsole, start, startServer, handleRequest,        *)
(* sendFile, sendFileContent, sendText, error, openBrowser.  The only      *)
(* state shared between sessions is the module variable webServer.         *)
(*                                                                         *)
(* JavaScript is single-threaded: a function runs to its next await (or to *)
(* the point where it hands a callback to the native side) without         *)
(* interleaving.  Every action below is one such run-to-completion step.   *)
(***************************************************************************)
EXTENDS Naturals, Integers, Sequences, FiniteSets, TLC

(***************************************************************************)
(* Bounds of the model.                                                    *)
(***************************************************************************)
MaxSessions == 2
MaxHandles == 2
MaxRequests == 3
MaxRouted == 1
MaxRootLen == 3
MaxPathLen == 4
MaxTextLen == 3
MaxInjections == 2
MaxHeadingLen == 3

(***************************************************************************)
(* Configuration values read by run().                                     *)
(***************************************************************************)
ServerPort == 8158
ConsolePort == 8159
MaxPort == 8160

Ports == ServerPort..MaxPort

VARIABLES
    webServer,   \* run.js:25  module variable: 0 (undefined) or a handle id
    servers,     \* the server handles created so far, in creation order
    sessions,    \* one record of closure variables per run() invocation
    existing,    \* ports on which another instance of the component listens
    reqs         \* the requests delivered to handleRequest so far

vars == <<webServer, servers, sessions, existing, reqs>>

(***************************************************************************)
(* The documents editorManager.activeFile can be when run() is called.     *)
(* location is the directory of the file ("" when unsaved), uri its URI,   *)
(* folder the url of the opened folder that contains it ("" when none).    *)
(***************************************************************************)
NoFile == [filename |-> "", location |-> "", uri |-> "", mode |-> "none", folder |-> ""]

FolderFile(name, root) ==
    [filename |-> name, location |-> root, uri |-> root, mode |-> "normal", folder |-> root]

ActiveFiles ==
    { FolderFile("index.html", "file:///proj"),
      FolderFile("main.js", "file:///proj"),
      FolderFile("a.md", "sftp://host/proj"),
      [filename |-> "a.txt", location |-> "file:///docs", uri |-> "file:///docs", mode |-> "normal", folder |-> ""],
      [filename |-> "LICENSE", location |-> "", uri |-> "content://docs/single", mode |-> "single", folder |-> ""],
      [filename |-> "main.js", location |-> "", uri |-> "content://docs/single", mode |-> "single", folder |-> ""],
      [filename |-> "untitled.txt", location |-> "", uri |-> "", mode |-> "normal", folder |-> ""] }

\* the documents run() is started on in the lifecycle specification
RunFiles ==
    { FolderFile("a.md", "sftp://host/proj"),
      FolderFile("main.js", "file:///proj") }

AssetsWww == "file:///android_asset/www/www/"

\* the request paths of the model: req.path without its leading slash, not empty
\* (run.js:183-190 replaces the empty path by getRelativePath())
Paths ==
    {"tok_console.js", "tok_script.js", "tok_md.css", "console.html", "favicon.ico",
     "index.html", "page.htm", "a.md", "main.js", "LICENSE"}

\* Url.extname of the file names the model uses
Extname(name) ==
    CASE name \in {"index.html", "console.html"} \cup {p \o "/index.html" : p \in Paths} -> ".html"
      [] name = "page.htm" -> ".htm"
      [] name = "a.md" -> ".md"
      [] name \in {"main.js", "tok_script.js", "tok_console.js", "eruda.js",
                   "js/build/console.build.js"} -> ".js"
      [] name \in {"a.txt", "b.txt", "untitled.txt"} -> ".txt"
      [] name \in {"favicon.ico", "res/logo/favicon.ico"} -> ".ico"
      [] name \in {"tok_md.css", "custom.css"} -> ".css"
      [] OTHER -> ""

(***************************************************************************)
(* Server handles (transport collaborator).                                *)
(***************************************************************************)
Handles == 1..Len(servers)
SessionIds == 1..Len(sessions)

\* CreateServer(port, openBrowser, onError): a new handle whose bind is pending
CreateServer(s, p) == [sess |-> s, port |-> p, state |-> "starting", cb |-> TRUE]

\* ServerHandle.stop()
Stop(srv, h) ==
    IF h = 0 THEN srv ELSE [srv EXCEPT ![h].state = "stopped"]

(***************************************************************************)
(* run.js:159-163  startServer: webServer?.stop(); webServer =             *)
(* CreateServer(port, openBrowser, onError); setOnRequestHandler(...).     *)
(* srv is the value of servers the call starts from.                       *)
(***************************************************************************)
startServerNoStop(s, p, srv) ==
    /\ Len(srv) < MaxHandles
    /\ servers' = Append(srv, CreateServer(s, p))
    /\ webServer' = Len(srv) + 1

startServer(s, p, srv) ==
    /\ Len(srv) < MaxHandles
    /\ servers' = Append(Stop(srv, webServer), CreateServer(s, p))
    /\ webServer' = Len(srv) + 1

(***************************************************************************)
(* run.js:145-157  start: in browser mode the server is started from the   *)
(* callbacks of system.isPowerSaveMode, otherwise at once.  ss is the      *)
(* session record as start() finds it, all the sessions it belongs to.     *)
(***************************************************************************)
startSkipsPowerSave(s, ss, all, srv) ==
    /\ sessions' = [all EXCEPT ![s] = [ss EXCEPT !.pc = "started"]]
    /\ startServer(s, ss.port, srv)

start(s, ss, all, srv) ==
    IF ss.target = "browser"
    THEN /\ sessions' = [all EXCEPT ![s] = [ss EXCEPT !.pc = "powersave"]]
         /\ servers' = srv
         /\ UNCHANGED webServer
    ELSE /\ sessions' = [all EXCEPT ![s] = [ss EXCEPT !.pc = "started"]]
         /\ startServer(s, ss.port, srv)

\* run.js:62-71  the token of a session (helpers.uuid()) and the endpoint names
\* built from it
Token == "tok"
CONSOLE_SCRIPT == Token \o "_console.js"
MARKDOWN_STYLE == Token \o "_md.css"

\* run.js:132-140  the assignments of startConsole
ConsoleVarsAlwaysRenames(ss) ==
    [ss EXCEPT !.execScript = ss.file.filename,
               !.isConsole = TRUE,
               !.target = "inapp",
               !.filename = "console.html",
               !.pathName = AssetsWww,
               !.port = ConsolePort]

ConsoleVars(ss) ==
    [ss EXCEPT !.execScript = IF ss.isConsole THEN ss.execScript ELSE ss.file.filename,
               !.isConsole = TRUE,
               !.target = "inapp",
               !.filename = "console.html",
               !.pathName = AssetsWww,
               !.port = ConsolePort]

\* run.js:131-143  startConsole
startConsole(s, ss, all, srv) == start(s, ConsoleVars(ss), all, srv)

\* run.js:126-129  next
next(s, ss, all, srv) ==
    IF ss.extension = ".js" \/ ss.isConsole
    THEN startConsole(s, ss, all, srv)
    ELSE start(s, ss, all, srv)

\* run.js:108-110  the assignments made when <folder>/index.html exists
IndexVars(ss) ==
    [ss EXCEPT !.filename = "index.html", !.extension = "html", !.pathName = ss.file.folder]

(***************************************************************************)
(* run.js:33-124  run(isConsole, target, runFile), up to its first await   *)
(* after the session state exists.  portsDiffer is serverPort !==          *)
(* previewPort, canRun the result of activeFile.canRun().                  *)
(***************************************************************************)
NewSession(isConsole, target, af) ==
    LET activeFile == IF isConsole THEN NoFile ELSE af
        hasFile == ~isConsole
        pathName0 == IF hasFile THEN activeFile.location ELSE ""
    IN  [ pc |-> "init",
          isConsole |-> isConsole,
          target |-> target,
          port |-> ServerPort,
          execScript |-> Token \o "_script.js",
          hasFile |-> hasFile,
          file |-> activeFile,
          filename |-> IF hasFile THEN activeFile.filename ELSE "",
          pathName |-> IF hasFile /\ pathName0 = "" /\ activeFile.uri # ""
                       THEN activeFile.uri ELSE pathName0,
          extension |-> IF hasFile THEN Extname(activeFile.filename) ELSE "",
          isLoading |-> FALSE,
          queue |-> << >>,
          opened |-> 0 ]

Run(isConsole, target, runFile, af, portsDiffer, canRun) ==
    /\ Len(sessions) < MaxSessions
    /\ UNCHANGED <<existing, reqs>>
    /\ IF ~isConsole /\ ~runFile /\ portsDiffer
       THEN UNCHANGED <<webServer, servers, sessions>>       \* run.js:38-51
       ELSE IF ~isConsole /\ ~canRun
       THEN UNCHANGED <<webServer, servers, sessions>>       \* run.js:55
       ELSE LET ss == NewSession(isConsole, target, af)
                s == Len(sessions) + 1
                all == Append(sessions, ss)
            IN  IF runFile /\ ss.extension = "svg"           \* run.js:84-97
                THEN /\ sessions' = [all EXCEPT ![s].pc = "svg"]
                     /\ UNCHANGED <<webServer, servers>>
                ELSE IF ~runFile /\ ss.filename # "index.html" /\ ss.pathName # ""
                        /\ ss.file.folder # ""               \* run.js:99-107
                THEN /\ sessions' = [all EXCEPT ![s].pc = "checkIndex"]
                     /\ UNCHANGED <<webServer, servers>>
                ELSE next(s, ss, all, servers)               \* run.js:124

\* run.js:107-120  the result of fs.exists() for <folder>/index.html arrives
IndexChecked(s, res) ==
    /\ s \in SessionIds
    /\ sessions[s].pc = "checkIndex"
    /\ UNCHANGED <<existing, reqs>>
    /\ LET ss == sessions[s]
       IN CASE res = "yes" -> start(s, IndexVars(ss), sessions, servers)
            [] res = "no" -> next(s, ss, sessions, servers)
            [] OTHER -> /\ sessions' = [sessions EXCEPT ![s].pc = "aborted"]
                        /\ UNCHANGED <<webServer, servers>>

\* run.js:147-153  the callbacks of system.isPowerSaveMode
PowerSave(s, res) ==
    /\ s \in SessionIds
    /\ sessions[s].pc = "powersave"
    /\ UNCHANGED <<existing, reqs>>
    /\ IF res = "on"
       THEN /\ sessions' = [sessions EXCEPT ![s].pc = "alerted"]
            /\ UNCHANGED <<webServer, servers>>
       ELSE /\ sessions' = [sessions EXCEPT ![s].pc = "started"]
            /\ startServer(s, sessions[s].port, servers)

\* run.js:791-805  openBrowser: the preview is opened on the session's port
openBrowser(ss) == [ss EXCEPT !.opened = ss.port]

(***************************************************************************)
(* The transport reports the outcome of a bind to the callbacks given to   *)
(* CreateServer.  A port on which the component already has an instance    *)
(* fails with "Server already running"; any other port binds or fails for  *)
(* another reason (held by a foreign process).  existing holds the ports   *)
(* on which the transport has found such an instance, which keeps          *)
(* listening.  A handle stopped before its outcome was delivered still     *)
(* gets its callback.                                                      *)
(***************************************************************************)
BindOutcomes(p) ==
    IF p \in existing THEN {"Server already running"}
    ELSE {"ok", "EADDRINUSE", "Server already running"}

Settle(h, st) ==
    [servers EXCEPT ![h].cb = FALSE,
                    ![h].state = IF servers[h].state = "starting" THEN st ELSE @]

\* the success callback: openBrowser
BindSuccess(h) ==
    /\ h \in Handles
    /\ servers[h].cb
    /\ "ok" \in BindOutcomes(servers[h].port)
    /\ servers' = Settle(h, "listening")
    /\ sessions' = [sessions EXCEPT ![servers[h].sess] = openBrowser(@)]
    /\ UNCHANGED <<webServer, existing, reqs>>

\* run.js:165-172  onError
onErrorAlwaysRetry(h, err) ==
    LET s == servers[h].sess
        ss == sessions[s]
    IN  /\ ss.port < MaxPort
        /\ start(s, [ss EXCEPT !.port = ss.port + 1], sessions, Settle(h, "failed"))

onError(h, err) ==
    IF err = "Server already running"
    THEN /\ servers' = Settle(h, "failed")
         /\ sessions' = [sessions EXCEPT ![servers[h].sess] = openBrowser(@)]
         /\ UNCHANGED webServer
    ELSE LET s == servers[h].sess
             ss == sessions[s]
         IN  /\ ss.port < MaxPort
             /\ start(s, [ss EXCEPT !.port = ss.port + 1], sessions, Settle(h, "failed"))

BindError(h, err) ==
    /\ h \in Handles
    /\ servers[h].cb
    /\ err \in BindOutcomes(servers[h].port) \ {"ok"}
    /\ onError(h, err)
    /\ existing' = IF err = "Server already running"
                   THEN existing \cup {servers[h].port} ELSE existing
    /\ UNCHANGED reqs

(***************************************************************************)
(* Requests.  A request record keeps the position of its handler (pc), the *)
(* url its handler works on, and the response sent for it: status 0 means  *)
(* that nothing has been sent, via is the handle the response was sent on. *)
(***************************************************************************)
ReqIds == 1..Len(reqs)

NoUrl == [root |-> "", name |-> ""]
Url(root, name) == [root |-> root, name |-> name]

\* Url.getProtocol
GetProtocol(root) ==
    CASE root \in {"file:///proj", "file:///docs", "file:///android_asset/www",
                   "file:///data", AssetsWww} -> "file:"
      [] root = "sftp://host/proj" -> "sftp:"
      [] root = "ftp://host/proj" -> "ftp:"
      [] root \in {"content://docs/proj", "content://docs/single"} -> "content:"
      [] root = "http://host/proj" -> "http:"
      [] OTHER -> ""

\* mimeType.lookup
MimeLookup(ext) ==
    CASE ext \in {".html", ".htm"} -> "text/html"
      [] ext = ".js" -> "application/javascript"
      [] ext = ".css" -> "text/css"
      [] ext = ".txt" -> "text/plain"
      [] ext = ".md" -> "text/markdown"
      [] ext = ".ico" -> "image/vnd.microsoft.icon"
      [] OTHER -> "false"

NoBody == [kind |-> "none", of |-> NoUrl]
TextBody(kind) == [kind |-> kind, of |-> NoUrl]

\* the texts a handler passes to sendText or sendHTML: the editor text of the
\* session's activeFile, of the document found for the url, the markdown page
\* rendered from it, the console page, the fallback stylesheet, the content read
\* from the url, or the empty text
Texts == {"activeFile.session", "file.session", "markdown.hbs", "console.hbs",
          "img {max-width: 100%;}", "readFile", ""}

\* handler is the case of the switch of handleRequest that took the request,
\* text the text the handler has to send, file is what sendByExt found for the url among the editor's documents ("" before
\* it looked), sf tells that sendFile was called for the request, reads counts
\* the readFile calls sendFile made for it, store is what sendFile did last
\* with the content of a url of another scheme (run.js:527-534): the content
\* of the url it holds in fileContent, or the content it stored in the cache file
NoStore == [op |-> "", of |-> NoUrl]

NewRequest(s, path) ==
    [sess |-> s, path |-> path, pc |-> "handle", handler |-> "", text |-> "",
     url |-> NoUrl, mime |-> "", file |-> "", sf |-> FALSE, reads |-> 0, store |-> NoStore,
     status |-> 0, body |-> NoBody, ctype |-> "", via |-> 0, sends |-> 0]

\* webServer?.send(id, {status, body | path, headers}); sends counts the send
\* calls made for the request
Send(rq, status, body, ctype) ==
    IF webServer = 0 THEN [rq EXCEPT !.pc = "done"]
    ELSE [rq EXCEPT !.pc = "done", !.status = status, !.body = body,
                    !.ctype = ctype, !.via = webServer, !.sends = @ + 1]

\* run.js:425-430  error
error(rq) == Send(rq, 404, TextBody("File not found!"), "")

\* run.js:593-601  sendText: the body is the text of the handler
sendTextIgnoresMime(rq, kind, mime) ==
    Send(rq, 200, [kind |-> kind, of |-> NoUrl, text |-> rq.text], "text/html")

sendText(rq, kind, mime) ==
    Send(rq, 200, [kind |-> kind, of |-> NoUrl, text |-> rq.text],
         IF mime \in {"", "false"} THEN "text/html" ELSE mime)

\* run.js:447-488  sendHTML: the instrumented text is sent by sendText
sendHTML(rq, kind) == sendText(rq, kind, "")

(***************************************************************************)
(* run.js:496-549  sendFile.  A fetch is the triple F = [ld, q, rs] of the *)
(* session's isLoading, its queue (the request ids whose continuations are *)
(* queued) and the requests.  SendFile is the call sendFile(path, id) up   *)
(* to its first await, Finish the tail of a served fetch (lines 538-548),  *)
(* which runs the dequeued continuation in the same turn.                  *)
(***************************************************************************)
IsFtp(protocol) == protocol \in {"ftp:", "sftp:"}

\* run.js:547  queue.splice(-1, 1)[0] removes and returns the last element
Dequeue(q) == [item |-> q[Len(q)], rest |-> SubSeq(q, 1, Len(q) - 1)]

\* the path a fetch of url serves: run.js:509-516, 523-525, 528-535
CachePathByName(url) ==
    LET protocol == GetProtocol(url.root)
    IN  CASE IsFtp(protocol) -> [kind |-> "cache", of |-> Url("", url.name)]
          [] protocol = "content:" -> [kind |-> "formatted", of |-> url]
          [] protocol = "file:" -> [kind |-> "file", of |-> url]
          [] OTHER -> [kind |-> "temp", of |-> url]

CachePathNoHash(url) == [kind |-> "cache", of |-> Url(url.root, "")]

CachePath(url) ==
    LET protocol == GetProtocol(url.root)
    IN  CASE IsFtp(protocol) -> [kind |-> "cache", of |-> url]
          [] protocol = "content:" -> [kind |-> "formatted", of |-> url]
          [] protocol = "file:" -> [kind |-> "file", of |-> url]
          [] OTHER -> [kind |-> "temp", of |-> url]

RECURSIVE SendFile(_, _), Finish(_, _)

\* run.js:504-536  sendFile from the point where it sets isLoading
StartFetchMimeOfServed(F, r) ==
    LET protocol == GetProtocol(F.rs[r].url.root)
        mimetype == IF protocol = "file:" THEN MimeLookup(Extname(F.rs[r].url.name)) ELSE "false"
        G == [F EXCEPT !.ld = TRUE, !.rs[r].mime = mimetype]
    IN  CASE IsFtp(protocol) -> [G EXCEPT !.rs[r].pc = "sf_read", !.rs[r].reads = @ + 1]
          [] protocol = "content:" -> [G EXCEPT !.rs[r].pc = "sf_format"]
          [] protocol # "file:" -> [G EXCEPT !.rs[r].pc = "sf_oread", !.rs[r].reads = @ + 1]
          [] OTHER -> Finish(G, r)

StartFetch(F, r) ==
    LET protocol == GetProtocol(F.rs[r].url.root)
        mimetype == MimeLookup(Extname(F.rs[r].url.name))
        G == [F EXCEPT !.ld = TRUE, !.rs[r].mime = mimetype]
    IN  CASE IsFtp(protocol) -> [G EXCEPT !.rs[r].pc = "sf_read", !.rs[r].reads = @ + 1]
          [] protocol = "content:" -> [G EXCEPT !.rs[r].pc = "sf_format"]
          [] protocol # "file:" -> [G EXCEPT !.rs[r].pc = "sf_oread", !.rs[r].reads = @ + 1]
          [] OTHER -> Finish(G, r)

SendFileNoGuard(F, r) == StartFetch(F, r)

SendFile(F, r) ==
    IF F.ld
    THEN [F EXCEPT !.q = Append(F.q, r), !.rs[r].pc = "queued"]        \* 497-502
    ELSE StartFetch(F, r)

Finish(F, r) ==
    LET rq == F.rs[r]
        G == [F EXCEPT !.rs[r] = Send(rq, 200, CachePath(rq.url), rq.mime),   \* 538-544
                       !.ld = FALSE]                                            \* 546
    IN  IF G.q = << >> THEN G                                                   \* 547-548
        ELSE SendFile([G EXCEPT !.q = Dequeue(G.q).rest], Dequeue(G.q).item)

\* run.js:517-521  the catch block of the ftp/sftp read
ReadFailedFallsThrough(F, r) ==
    Finish([F EXCEPT !.rs[r] = error(F.rs[r])], r)

ReadFailed(F, r) ==
    [F EXCEPT !.rs[r] = error(F.rs[r]), !.ld = FALSE]

\* the fetch state of session s, and its write-back
Fetch(s) == [ld |-> sessions[s].isLoading, q |-> sessions[s].queue, rs |-> reqs]

SetFetch(s, F) ==
    /\ sessions' = [sessions EXCEPT ![s].isLoading = F.ld, ![s].queue = F.q]
    /\ reqs' = F.rs

\* run.js:437-440  sendIco
IcoUrl == Url("file:///android_asset/www", "res/logo/favicon.ico")

(***************************************************************************)
(* A call is what a step of a handler does next: op is the function it     *)
(* calls (or "none" when it returns without calling any, "throw" when it   *)
(* throws), url and mime the arguments.                                    *)
(***************************************************************************)
Call(op, url, mime) ==
    [op |-> op, url |-> url, mime |-> mime, file |-> "", handler |-> "sendByExt", text |-> ""]

\* the call c with the text it passes
Text(txt, c) == [c EXCEPT !.text = txt]

\* the call c made by the case h of the switch of handleRequest (run.js:197-225)
Case(h, c) == [c EXCEPT !.handler = h]

Found(c, doc) == [c EXCEPT !.file = doc]

\* run.js:363-417  the switch on the extension of the request path; doc is the
\* state of file, the editor's document for url
DispatchIgnoresBuffer(ext, url, doc, reqPath, docName) ==
    Found(IF url # NoUrl THEN Call("sendFile", url, "") ELSE Call("error", url, ""), doc)

Dispatch(ext, url, doc, reqPath, docName) ==
    Found(CASE ext \in {".htm", ".html"} ->
                IF doc = "unsaved" THEN Text("file.session", Call("sendHTML", url, ""))
                ELSE Call("sendFileContent", url, "text/html")
            [] ext = ".md" ->
                IF doc # "none" THEN Text("markdown.hbs", Call("sendText", url, "text/html"))
                ELSE Call("none", url, "")
            [] OTHER ->
                IF doc = "unsaved"
                THEN IF Extname(docName) = ".html"
                     THEN Text("file.session", Call("sendHTML", url, ""))
                     ELSE Text("file.session",
                               Call("sendText", url, MimeLookup(Extname(docName))))
                ELSE IF url # NoUrl
                THEN IF reqPath = "favicon.ico" THEN Call("sendFile", IcoUrl, "")
                     ELSE Call("sendFile", url, "")
                ELSE Call("error", url, ""), doc)

\* run.js:227-361  sendByExt up to its first await; doc is the state of activeFile,
\* which is the file served when the session has no pathName
sendByExtNoSingleMode(ss, reqPath, doc) ==
    IF ss.isConsole /\ reqPath = "console.html"
    THEN Text("console.hbs", Call("sendText", NoUrl, "text/html"))
    ELSE IF ss.isConsole /\ reqPath = "favicon.ico" THEN Call("sendFile", IcoUrl, "")
    ELSE IF ~ss.hasFile THEN Call("throw", NoUrl, "")
    ELSE IF ss.pathName # "" THEN Call("stat", Url(ss.pathName, reqPath), "")
    ELSE Dispatch(Extname(reqPath), NoUrl, doc, reqPath, ss.file.filename)

sendByExt(ss, reqPath, doc) ==
    IF ss.isConsole /\ reqPath = "console.html"
    THEN Text("console.hbs", Call("sendText", NoUrl, "text/html"))
    ELSE IF ss.isConsole /\ reqPath = "favicon.ico" THEN Call("sendFile", IcoUrl, "")
    ELSE IF ~ss.hasFile THEN Call("throw", NoUrl, "")
    ELSE IF ss.file.mode = "single"
    THEN IF ss.filename = reqPath
         THEN Text("activeFile.session",
                   Call("sendText", NoUrl, MimeLookup(Extname(ss.filename))))
         ELSE Call("error", NoUrl, "")
    ELSE IF ss.pathName # "" THEN Call("stat", Url(ss.pathName, reqPath), "")
    ELSE Dispatch(Extname(reqPath), NoUrl, doc, reqPath, ss.file.filename)

ConsoleBuildUrl == Url("file:///android_asset/www", "js/build/console.build.js")
ErudaUrl == Url("file:///data", "eruda.js")
MarkdownStyleUrl == Url("file:///data", "custom.css")

\* run.js:199-206  the script the console-bootstrap endpoint serves; legacy is
\* appSettings.value.console === appSettings.CONSOLE_LEGACY
ConsoleScriptUrlBySetting(ss, legacy) ==
    IF legacy THEN ConsoleBuildUrl ELSE ErudaUrl

ConsoleScriptUrl(ss, legacy) ==
    IF ss.isConsole \/ legacy THEN ConsoleBuildUrl ELSE ErudaUrl

\* run.js:181-225  handleRequest up to its first await
handleRequestNoStyleCase(ss, reqPath, legacy, mdStyle, doc) ==
    CASE reqPath = CONSOLE_SCRIPT ->
            Case("CONSOLE_SCRIPT",
                 Call("sendFileContent", ConsoleScriptUrl(ss, legacy),
                      "application/javascript"))
      [] reqPath # CONSOLE_SCRIPT /\ reqPath = ss.execScript ->
            Case("EXECUTING_SCRIPT",
                 Text(IF ss.hasFile THEN "activeFile.session" ELSE "",
                      Call("sendText", NoUrl, "application/javascript")))
      [] OTHER -> sendByExt(ss, reqPath, doc)

handleRequest(ss, reqPath, legacy, mdStyle, doc) ==
    CASE reqPath = CONSOLE_SCRIPT ->
            Case("CONSOLE_SCRIPT",
                 Call("sendFileContent", ConsoleScriptUrl(ss, legacy),
                      "application/javascript"))
      [] reqPath # CONSOLE_SCRIPT /\ reqPath = ss.execScript ->
            Case("EXECUTING_SCRIPT",
                 Text(IF ss.hasFile THEN "activeFile.session" ELSE "",
                      Call("sendText", NoUrl, "application/javascript")))
      [] reqPath \notin {CONSOLE_SCRIPT, ss.execScript} /\ reqPath = MARKDOWN_STYLE ->
            Case("MARKDOWN_STYLE",
                 IF mdStyle THEN Call("sendFileContent", MarkdownStyleUrl, "text/css")
                 ELSE Text("img {max-width: 100%;}", Call("sendText", NoUrl, "text/css")))
      [] OTHER -> sendByExt(ss, reqPath, doc)

(***************************************************************************)
(* Perform carries out the call c of the handler of request r in session s *)
(* up to the next await of the called function.                            *)
(***************************************************************************)
Perform(s, r, c, rs) ==
    LET rq == [rs[r] EXCEPT !.url = c.url, !.mime = c.mime, !.file = c.file,
                            !.sf = (c.op = "sendFile"), !.handler = c.handler,
                            !.text = c.text]
        F == [ld |-> sessions[s].isLoading, q |-> sessions[s].queue,
              rs |-> [rs EXCEPT ![r] = rq]]
    IN  CASE c.op = "sendText" -> [F EXCEPT !.rs[r] = sendText(rq, "text", c.mime)]
          [] c.op = "sendHTML" -> [F EXCEPT !.rs[r] = sendHTML(rq, "html")]
          [] c.op = "error" -> [F EXCEPT !.rs[r] = error(rq)]
          [] c.op = "none" -> [F EXCEPT !.rs[r].pc = "done"]
          [] c.op = "throw" -> [F EXCEPT !.rs[r].pc = "thrown"]
          [] c.op = "stat" -> [F EXCEPT !.rs[r].pc = "stat"]
          [] c.op = "sendFileContent" -> [F EXCEPT !.rs[r].pc = "sfc_exists"]    \* 560-562
          [] OTHER -> SendFile(F, r)

Listening(s) == \E h \in Handles : servers[h].sess = s /\ servers[h].state = "listening"

\* the transport delivers a request to the handler of a listening server
Deliver(s, cap, reqPath, legacy, mdStyle, doc) ==
    /\ s \in SessionIds
    /\ Listening(s)
    /\ Len(reqs) < cap
    /\ LET r == Len(reqs) + 1
           rs == Append(reqs, NewRequest(s, reqPath))
       IN  SetFetch(s, Perform(s, r, handleRequest(sessions[s], reqPath, legacy, mdStyle, doc), rs))
    /\ UNCHANGED <<webServer, servers, existing>>

\* run.js:340-361  the result of urlFile.stat() arrives
StatDone(r, res, doc) ==
    /\ r \in ReqIds
    /\ reqs[r].pc = "stat"
    /\ LET rq == reqs[r]
           s == rq.sess
           url == IF res = "dir" THEN Url(rq.url.root, rq.url.name \o "/index.html") ELSE rq.url
           c == CASE res = "error" -> Call("throw", rq.url, "")
                  [] res = "missing" -> Call("error", rq.url, "")
                  [] OTHER -> Dispatch(Extname(rq.path), url, doc, rq.path, url.name)
       IN  SetFetch(s, Perform(s, r, c, reqs))
    /\ UNCHANGED <<webServer, servers, existing>>

(***************************************************************************)
(* run.js:559-584  sendFileContent, one action per await.                  *)
(***************************************************************************)
SfcExists(r, res) ==
    /\ r \in ReqIds
    /\ reqs[r].pc = "sfc_exists"
    /\ reqs' = [reqs EXCEPT ![r].pc = CASE res = "yes" -> "sfc_read"
                                          [] res = "no" -> "sfc_xexists"
                                          [] OTHER -> "thrown"]
    /\ UNCHANGED <<webServer, servers, sessions, existing>>

SfcFallbackExists(r, res) ==
    /\ r \in ReqIds
    /\ reqs[r].pc = "sfc_xexists"
    /\ reqs' = [reqs EXCEPT ![r] = CASE res = "yes" -> [@ EXCEPT !.pc = "done"]   \* 565-568, 574
                                       [] res = "no" -> error(@)                    \* 570-571
                                       [] OTHER -> [@ EXCEPT !.pc = "thrown"]]
    /\ UNCHANGED <<webServer, servers, sessions, existing>>

SfcRead(r, res) ==
    /\ r \in ReqIds
    /\ reqs[r].pc = "sfc_read"
    /\ reqs' = [reqs EXCEPT ![r] = IF res = "ok"
                                   THEN LET rq == [@ EXCEPT !.text = "readFile"]      \* 577
                                        IN  IF rq.mime = "text/html" THEN sendHTML(rq, "html")
                                            ELSE sendText(rq, "text", rq.mime)
                                   ELSE [@ EXCEPT !.pc = "thrown"]]
    /\ UNCHANGED <<webServer, servers, sessions, existing>>

(***************************************************************************)
(* run.js:508-536  the awaits of sendFile.                                 *)
(***************************************************************************)
\* 514-521  fs.readFile() of an ftp: or sftp: path
RemoteRead(r, res) ==
    /\ r \in ReqIds
    /\ reqs[r].pc = "sf_read"
    /\ SetFetch(reqs[r].sess, IF res = "ok" THEN Finish(Fetch(reqs[r].sess), r)
                              ELSE ReadFailed(Fetch(reqs[r].sess), r))
    /\ UNCHANGED <<webServer, servers, existing>>

\* 523-525  sdcard.formatUri of a content: path
FormatUri(r, res) ==
    /\ r \in ReqIds
    /\ reqs[r].pc = "sf_format"
    /\ IF res = "ok" THEN SetFetch(reqs[r].sess, Finish(Fetch(reqs[r].sess), r))
       ELSE /\ reqs' = [reqs EXCEPT ![r].pc = "thrown"]
            /\ UNCHANGED sessions
    /\ UNCHANGED <<webServer, servers, existing>>

\* 527  fsOperation(path).readFile() for any other scheme than file:
OtherRead(r, res) ==
    /\ r \in ReqIds
    /\ reqs[r].pc = "sf_oread"
    /\ reqs' = [reqs EXCEPT ![r] = IF res = "ok"
                                   THEN [@ EXCEPT !.pc = "sf_oexists",
                                                  !.store = [op |-> "readFile", of |-> reqs[r].url]]
                                   ELSE [@ EXCEPT !.pc = "thrown"]]
    /\ UNCHANGED <<webServer, servers, sessions, existing>>

\* 530  fsOperation(tempFile).exists()
OtherExists(r, res) ==
    /\ r \in ReqIds
    /\ reqs[r].pc = "sf_oexists"
    /\ reqs' = [reqs EXCEPT ![r].pc = CASE res = "no" -> "sf_create"
                                          [] res = "yes" -> "sf_write"
                                          [] OTHER -> "thrown"]
    /\ UNCHANGED <<webServer, servers, sessions, existing>>

\* 531-535  createFile() or writeFile() of the cache file with fileContent
Stored(F, r) ==
    [F EXCEPT !.rs[r].store = [op |-> IF F.rs[r].pc = "sf_create" THEN "createFile" ELSE "writeFile",
                               of |-> F.rs[r].store.of]]

OtherStoreKeepsExisting(r, res) ==
    /\ r \in ReqIds
    /\ reqs[r].pc \in {"sf_create", "sf_write"}
    /\ IF res = "ok"
       THEN SetFetch(reqs[r].sess,
                     Finish(IF reqs[r].pc = "sf_create" THEN Stored(Fetch(reqs[r].sess), r)
                            ELSE Fetch(reqs[r].sess), r))
       ELSE /\ reqs' = [reqs EXCEPT ![r].pc = "thrown"]
            /\ UNCHANGED sessions
    /\ UNCHANGED <<webServer, servers, existing>>

OtherStore(r, res) ==
    /\ r \in ReqIds
    /\ reqs[r].pc \in {"sf_create", "sf_write"}
    /\ IF res = "ok" THEN SetFetch(reqs[r].sess, Finish(Stored(Fetch(reqs[r].sess), r), r))
       ELSE /\ reqs' = [reqs EXCEPT ![r].pc = "thrown"]
            /\ UNCHANGED sessions
    /\ UNCHANGED <<webServer, servers, existing>>

(***************************************************************************)
(* Specification of the server lifecycle.                                  *)
(***************************************************************************)
Init ==
    /\ webServer = 0
    /\ servers = << >>
    /\ sessions = << >>
    /\ existing = {}
    /\ reqs = << >>

NextServer ==
    \/ \E isConsole \in BOOLEAN, target \in {"inapp", "browser"}, runFile \in BOOLEAN,
          af \in RunFiles, portsDiffer \in BOOLEAN, canRun \in BOOLEAN :
            Run(isConsole, target, runFile, af, portsDiffer, canRun)
    \/ \E s \in SessionIds, res \in {"yes", "no", "error"} : IndexChecked(s, res)
    \/ \E s \in SessionIds, res \in {"on", "off", "error"} : PowerSave(s, res)
    \/ \E h \in Handles : BindSuccess(h)
    \/ \E h \in Handles, err \in {"Server already running", "EADDRINUSE"} : BindError(h, err)

SpecServer == Init /\ [][NextServer]_vars

(***************************************************************************)
(* A session whose server is listening: the state after run() on the       *)
(* document af (or as console), a successful bind and openBrowser.         *)
(***************************************************************************)
ReadySessions(files) ==
    UNION { LET b == NewSession(isConsole, "inapp", af)
            IN  (IF b.extension = ".js" \/ b.isConsole THEN {ConsoleVars(b)} ELSE {b})
                \cup (IF ~isConsole /\ b.filename # "index.html" /\ b.pathName # ""
                         /\ b.file.folder # ""
                      THEN {IndexVars(b)} ELSE {})
          : isConsole \in BOOLEAN, af \in files }

InitListening(ready) ==
    /\ \E ss \in ready :
          /\ sessions = << openBrowser([ss EXCEPT !.pc = "started"]) >>
          /\ servers = << [CreateServer(1, ss.port) EXCEPT !.state = "listening", !.cb = FALSE] >>
    /\ webServer = 1
    /\ existing = {}
    /\ reqs = << >>

Results == {"ok", "error"}
Answers == {"yes", "no", "error"}
StatResults == {"file", "dir", "missing", "error"}
\* what editorManager.getFile finds for a url: no document, a saved one, or a
\* loaded one with unsaved changes; the active document is one of the last two
Docs == {"none", "saved", "unsaved"}
ActiveDocs == {"saved", "unsaved"}

(***************************************************************************)
(* Specification of the router: every request path in every kind of        *)
(* session (console, single file, file without folder, unsaved file, local *)
(* and remote folder), MaxRouted requests at a time.  The fetches of the   *)
(* other schemes are part of the specification of the serializer.          *)
(***************************************************************************)
InitRoute == InitListening(ReadySessions(ActiveFiles))

NextRoute ==
    \/ \E s \in SessionIds, reqPath \in Paths, legacy \in BOOLEAN, mdStyle \in BOOLEAN,
          doc \in ActiveDocs : Deliver(s, MaxRouted, reqPath, legacy, mdStyle, doc)
    \/ \E r \in ReqIds, res \in StatResults, doc \in Docs : StatDone(r, res, doc)
    \/ \E r \in ReqIds, res \in Answers : SfcExists(r, res)
    \/ \E r \in ReqIds, res \in Answers : SfcFallbackExists(r, res)
    \/ \E r \in ReqIds, res \in Results : SfcRead(r, res)
    \/ \E r \in ReqIds, res \in Results : RemoteRead(r, res)

SpecRoute == InitRoute /\ [][NextRoute]_vars

(***************************************************************************)
(* Specification of the fetch serializer: MaxRequests requests for the     *)
(* files of a folder session, for every scheme of the folder.              *)
(***************************************************************************)
FetchFiles ==
    { FolderFile("index.html", root) :
        root \in {"file:///proj", "sftp://host/proj", "ftp://host/proj",
                  "content://docs/proj", "http://host/proj"} }

FetchDocs == {"none", "unsaved"}

\* the serializer is reached by the paths that exist
FetchStats == {"file", "missing"}

FetchPaths == {"a.txt", "favicon.ico", "tok_script.js"}

InitFetch == InitListening(ReadySessions(FetchFiles))

NextFetch ==
    \/ \E s \in SessionIds, reqPath \in FetchPaths :
            Deliver(s, MaxRequests, reqPath, FALSE, FALSE, "saved")
    \/ \E r \in ReqIds, res \in FetchStats, doc \in FetchDocs : StatDone(r, res, doc)
    \/ \E r \in ReqIds, res \in Results : RemoteRead(r, res)
    \/ \E r \in ReqIds, res \in Results : FormatUri(r, res)
    \/ \E r \in ReqIds, res \in Results : OtherRead(r, res)
    \/ \E r \in ReqIds, res \in Answers : OtherExists(r, res)
    \/ \E r \in ReqIds, res \in Results : OtherStore(r, res)

SpecFetch == InitFetch /\ [][NextFetch]_vars

(***************************************************************************)
(* Specification of the handover: a session is listening and serves        *)
(* requests for the files of its remote folder, and further run() calls    *)
(* replace the process-wide server while requests are being handled.       *)
(***************************************************************************)
HandoverFiles == { FolderFile("index.html", "sftp://host/proj") }

HandoverPaths == {"a.txt", "index.html"}

InitHandover == InitListening(ReadySessions(HandoverFiles))

NextHandover ==
    \/ \E isConsole \in BOOLEAN, af \in HandoverFiles :
            Run(isConsole, "inapp", FALSE, af, FALSE, TRUE)
    \/ \E h \in Handles : BindSuccess(h)
    \/ \E s \in SessionIds, reqPath \in HandoverPaths :
            Deliver(s, MaxRouted, reqPath, FALSE, FALSE, "saved")
    \/ \E r \in ReqIds, res \in FetchStats : StatDone(r, res, "none")
    \/ \E r \in ReqIds, res \in Answers : SfcExists(r, res)
    \/ \E r \in ReqIds, res \in Answers : SfcFallbackExists(r, res)
    \/ \E r \in ReqIds, res \in Results : SfcRead(r, res)
    \/ \E r \in ReqIds, res \in Results : RemoteRead(r, res)

SpecHandover == InitHandover /\ [][NextHandover]_vars

(***************************************************************************)
(* run.js:264-336  the target sendByExt computes from the root folder and   *)
(* the request path.  Here a string is the sequence of its characters.  In  *)
(* the specifications above the target is Url(pathName, reqPath): for their *)
(* roots and paths no end of the root is a beginning of the path and no     *)
(* path begins with the last segment of the root.                           *)
(***************************************************************************)
Chars == {"/", "j", "s"}

Strings(n) == UNION {[1..k -> Chars] : k \in 0..n}

Min(a, b) == IF a < b THEN a ELSE b

\* str.slice(n)
Slice(str, n) == SubSeq(str, n + 1, Len(str))

\* str.startsWith(prefix)
StartsWith(str, prefix) ==
    Len(prefix) <= Len(str) /\ SubSeq(str, 1, Len(prefix)) = prefix

\* str.replace(/\/+$/, "") and str.replace(/^\/+/, "")
RECURSIVE StripTrailingSlashes(_)
StripTrailingSlashes(str) ==
    IF str # << >> /\ str[Len(str)] = "/"
    THEN StripTrailingSlashes(SubSeq(str, 1, Len(str) - 1)) ELSE str

RECURSIVE StripLeadingSlashes(_)
StripLeadingSlashes(str) ==
    IF str # << >> /\ str[1] = "/" THEN StripLeadingSlashes(Tail(str)) ELSE str

\* str.split("/"): the sequence of the segments of str
RECURSIVE Split(_)
Split(str) ==
    IF \A i \in 1..Len(str) : str[i] # "/" THEN << str >>
    ELSE LET i == CHOOSE k \in 1..Len(str) :
                      str[k] = "/" /\ \A m \in 1..(k - 1) : str[m] # "/"
         IN  << SubSeq(str, 1, i - 1) >> \o Split(Slice(str, i))

\* parts.join("/")
RECURSIVE JoinParts(_)
JoinParts(parts) ==
    IF parts = << >> THEN << >>
    ELSE IF Len(parts) = 1 THEN parts[1]
    ELSE parts[1] \o << "/" >> \o JoinParts(Tail(parts))

\* run.js:295-300  removePrefix
removePrefix(str, prefix) ==
    IF StartsWith(str, prefix) THEN Slice(str, Len(prefix)) ELSE str

\* run.js:302-320  findOverlap: the longest end of a that is a beginning of b
findOverlap(a, b) ==
    LET matches == {i \in 1..Min(Len(a), Len(b)) :
                      SubSeq(a, Len(a) - i + 1, Len(a)) = SubSeq(b, 1, i)}
    IN  IF matches = {} THEN << >>
        ELSE SubSeq(b, 1, CHOOSE i \in matches : \A k \in matches : k <= i)

\* Url.join of a path or url and a relative path: one slash between the two, an
\* empty second part adds nothing, repeated slashes are folded behind the scheme
RECURSIVE DropEmptyParts(_)
DropEmptyParts(parts) ==
    IF Len(parts) <= 1 THEN parts
    ELSE IF parts[1] = << >> THEN DropEmptyParts(Tail(parts))
    ELSE << parts[1] >> \o DropEmptyParts(Tail(parts))

FoldSlashes(str) ==
    LET parts == Split(str)
    IN  IF Len(parts) = 1 THEN str
        ELSE JoinParts(<< parts[1] >> \o DropEmptyParts(Tail(parts)))

\* the length of the scheme and "://" a url begins with, 0 for a plain path
ProtocolLen(str) ==
    LET ends == {i \in 3..Len(str) : SubSeq(str, i - 2, i) = <<":", "/", "/">>}
    IN  IF ends = {} THEN 0 ELSE CHOOSE i \in ends : \A k \in ends : i <= k

UrlJoin(a, b) ==
    LET joined == IF b = << >> THEN a ELSE a \o << "/" >> \o b
        n == ProtocolLen(joined)
    IN  SubSeq(joined, 1, n) \o FoldSlashes(Slice(joined, n))

\* run.js:285-334  fullPath, from rootFolder and reqPath as sendByExt has them
FullPath(root, path) ==
    LET rootFolder == StripTrailingSlashes(root)                       \* 285
        reqPath == StripLeadingSlashes(path)                           \* 286
        rootParts == Split(rootFolder)                                 \* 288
        pathParts0 == Split(reqPath)                                   \* 289
        pathParts == IF pathParts0[1] = rootParts[Len(rootParts)]      \* 291-293
                     THEN Tail(pathParts0) ELSE pathParts0
        joined == JoinParts(pathParts)
        overlap == findOverlap(rootFolder, joined)                     \* 324
    IN  IF overlap # << >>
        THEN UrlJoin(rootFolder, removePrefix(joined, overlap))        \* 328-331
        ELSE UrlJoin(rootFolder, joined)                               \* 333

\* the root folders and the root-relative request paths of the specification
NoDoubleSlash(str) == \A i \in 1..(Len(str) - 1) : ~(str[i] = "/" /\ str[i + 1] = "/")

RootFolders ==
    {root \in Strings(MaxRootLen) :
        Len(root) >= 2 /\ root[1] = "/" /\ root[2] # "/" /\ NoDoubleSlash(root)}

RequestPaths ==
    {path \in Strings(MaxPathLen) :
        Len(path) >= 1 /\ path[1] # "/" /\ NoDoubleSlash(path)}

(***************************************************************************)
(* Specification of the path resolution: one request whose handler is at   *)
(* run.js:264 with its root folder and request path, and the step to the   *)
(* stat() of the target at run.js:338-340.                                 *)
(***************************************************************************)
InitResolve ==
    /\ webServer = 0
    /\ servers = << >>
    /\ sessions = << >>
    /\ existing = {}
    /\ \E root \in RootFolders, path \in RequestPaths :
          reqs = << [pc |-> "resolve", root |-> root, path |-> path, fullPath |-> << >>] >>

ResolveTarget(r) ==
    /\ r \in ReqIds
    /\ reqs[r].pc = "resolve"
    /\ reqs' = [reqs EXCEPT ![r].pc = "stat",
                            ![r].fullPath = FullPath(reqs[r].root, reqs[r].path)]
    /\ UNCHANGED <<webServer, servers, sessions, existing>>

NextResolve == \E r \in ReqIds : ResolveTarget(r)

SpecResolve == InitResolve /\ [][NextResolve]_vars

(***************************************************************************)
(* run.js:603-786  makeUriAbsoluteIfNeeded and getRelativePath.  A string  *)
(* is the sequence of its characters.  The literals of the code and the    *)
(* uris of the specification are written out character by character.       *)
(***************************************************************************)
\* run.js:604-605  termuxRootEncoded
TermuxRootEncoded ==
    <<"c", "o", "n", "t", "e", "n", "t", ":", "/", "/", "c", "o", "m", ".", "t", "e",
    "r", "m", "u", "x", ".", "d", "o", "c", "u", "m", "e", "n", "t", "s", "/", "t", "r",
    "e", "e", "/", "%", "2", "F", "d", "a", "t", "a", "%", "2", "F", "d", "a", "t", "a",
    "%", "2", "F", "c", "o", "m", ".", "t", "e", "r", "m", "u", "x", "%", "2", "F", "f",
    "i", "l", "e", "s", "%", "2", "F", "h", "o", "m", "e">>

\* the literals "com.termux.documents", "tree/", "::", "content://", "%3A",
\* "ftp:", "sftp:", "?" of run.js:630-631, 658, 665, 675, 705, 723
TermuxDocuments ==
    <<"c", "o", "m", ".", "t", "e", "r", "m", "u", "x", ".", "d", "o", "c", "u", "m",
    "e", "n", "t", "s">>

TreeSlash ==
    <<"t", "r", "e", "e", "/">>

DoubleColon ==
    <<":", ":">>

ContentScheme ==
    <<"c", "o", "n", "t", "e", "n", "t", ":", "/", "/">>

EncodedColon ==
    <<"%", "3", "A">>

FtpScheme ==
    <<"f", "t", "p", ":">>

SftpScheme ==
    <<"s", "f", "t", "p", ":">>

QuestionMark ==
    <<"?">>

\* str.includes(sub) and str.indexOf(sub)
Includes(str, sub) ==
    \E i \in 0..(Len(str) - Len(sub)) : SubSeq(str, i + 1, i + Len(sub)) = sub

IndexOf(str, sub) ==
    CHOOSE i \in 0..(Len(str) - Len(sub)) :
        /\ SubSeq(str, i + 1, i + Len(sub)) = sub
        /\ \A k \in 0..(i - 1) : SubSeq(str, k + 1, k + Len(sub)) # sub

\* str.split(sep) for a separator of one or more characters
RECURSIVE SplitBy(_, _)
SplitBy(str, sep) ==
    IF ~Includes(str, sep) THEN << str >>
    ELSE LET i == IndexOf(str, sep)
         IN  << SubSeq(str, 1, i) >> \o SplitBy(Slice(str, i + Len(sep)), sep)

\* parts[n] of a JavaScript array: the empty string stands for undefined
At(parts, n) == IF n + 1 <= Len(parts) THEN parts[n + 1] ELSE << >>

\* decodeURIComponent: ok is false when it throws a URIError.  The uris of the
\* specification use the escapes %2F, %3A and %25; a "%" that is followed by
\* anything else is malformed.
Escapes == {<<"2", "F">>, <<"3", "A">>, <<"2", "5">>}

Unescape(code) ==
    CASE code = <<"2", "F">> -> "/"
      [] code = <<"3", "A">> -> ":"
      [] OTHER -> "%"

RECURSIVE decodeURIComponent(_)
decodeURIComponent(str) ==
    IF ~Includes(str, << "%" >>) THEN [ok |-> TRUE, str |-> str]
    ELSE LET i == IndexOf(str, << "%" >>)
             code == SubSeq(str, i + 2, i + 3)
             rest == decodeURIComponent(Slice(str, i + 3))
         IN  IF code \in Escapes
             THEN [ok |-> rest.ok,
                   str |-> SubSeq(str, 1, i) \o << Unescape(code) >> \o rest.str]
             ELSE [ok |-> FALSE, str |-> << >>]

\* run.js:634  uri.match(/tree\/([^:]+)/): the characters other than ":" that
\* follow the first "tree/" followed by such a character; empty when none matches
UpToColon(str) ==
    IF Includes(str, << ":" >>) THEN SubSeq(str, 1, IndexOf(str, << ":" >>)) ELSE str

TreeMatch(uri) ==
    LET starts == {i \in 0..(Len(uri) - Len(TreeSlash) - 1) :
                      /\ SubSeq(uri, i + 1, i + Len(TreeSlash)) = TreeSlash
                      /\ uri[i + Len(TreeSlash) + 1] # ":"}
    IN  IF starts = {} THEN << >>
        ELSE UpToColon(Slice(uri, (CHOOSE i \in starts : \A k \in starts : i <= k)
                                  + Len(TreeSlash)))

\* run.js:603-617  makeUriAbsoluteIfNeeded; the decoding of line 612 is not
\* inside a try block: ok is false when it throws
makeUriAbsoluteIfNeeded(uri) ==
    IF StartsWith(uri, TermuxRootEncoded) /\ ~Includes(uri, DoubleColon)
    THEN LET decodedPath == decodeURIComponent(At(SplitBy(uri, TreeSlash), 1))
         IN  [ok |-> decodedPath.ok,
              str |-> TermuxRootEncoded \o DoubleColon \o decodedPath.str \o << "/" >>]
    ELSE [ok |-> TRUE, str |-> uri]

\* run.js:621-650  rootFolder before it is made absolute; projectFolder is
\* addedFolder[0], open tells whether it is defined
RootFolderIgnoresLocation(projectFolder, pathName, uri) ==
    IF uri # << >> /\ Includes(uri, TermuxDocuments) /\ Includes(uri, TreeSlash)
    THEN LET treeMatch == TreeMatch(uri)
             decodedRoot == decodeURIComponent(treeMatch)
         IN  IF treeMatch # << >> /\ decodedRoot.ok THEN decodedRoot.str
             ELSE pathName
    ELSE IF projectFolder.open /\ pathName # << >> THEN projectFolder.url
    ELSE pathName

RootFolder(projectFolder, pathName, uri) ==
    IF uri # << >> /\ Includes(uri, TermuxDocuments) /\ Includes(uri, TreeSlash)
    THEN LET treeMatch == TreeMatch(uri)
             decodedRoot == decodeURIComponent(treeMatch)
         IN  IF treeMatch # << >> /\ decodedRoot.ok THEN decodedRoot.str   \* 635-643
             ELSE pathName
    ELSE IF projectFolder.open /\ pathName # << >>
            /\ Includes(pathName, projectFolder.url)
    THEN projectFolder.url                                                 \* 649
    ELSE pathName

\* run.js:658-669  the query string is cut from ftp: and sftp: urls
StripQuery(str) ==
    IF Includes(str, QuestionMark) THEN At(SplitBy(str, QuestionMark), 0) ELSE str

\* run.js:675-702  the strategy for Termux uris; empty when it returns nothing
TermuxRelative(rootFolder, temp) ==
    IF Includes(temp, TermuxDocuments) /\ Includes(temp, DoubleColon)
    THEN LET realPath == At(SplitBy(temp, DoubleColon), 1)
             normalizedRoot == StripTrailingSlashes(rootFolder)
         IN  IF StartsWith(realPath, normalizedRoot)
             THEN StripLeadingSlashes(Slice(realPath, Len(normalizedRoot)))
             ELSE << >>
    ELSE << >>

\* run.js:711-738  normalizedRoot of the strategy for the other content: uris
ContentRoot(rootFolder) ==
    LET rootFolderPath0 == IF Includes(rootFolder, DoubleColon)            \* 712-715
                           THEN At(SplitBy(rootFolder, DoubleColon), 1)
                           ELSE rootFolder
        rootParts == Split(rootFolder)
        lastPart == rootParts[Len(rootParts)]
        decoded == decodeURIComponent(lastPart)
        rootFolderPath ==
            IF ~Includes(rootFolderPath0, DoubleColon)                     \* 718-735
            THEN IF Includes(lastPart, EncodedColon) /\ decoded.ok
                 THEN decoded.str ELSE lastPart
            ELSE rootFolderPath0
    IN  StripTrailingSlashes(rootFolderPath)

\* run.js:705-754  the strategy for the other content: uris
ContentRelative(rootFolder, temp) ==
    IF Includes(temp, ContentScheme) /\ Includes(temp, DoubleColon)
    THEN LET afterDoubleColon == At(SplitBy(temp, DoubleColon), 1)
             normalizedRoot == ContentRoot(rootFolder)
         IN  IF afterDoubleColon # << >> /\ StartsWith(afterDoubleColon, normalizedRoot)
             THEN StripLeadingSlashes(Slice(afterDoubleColon, Len(normalizedRoot)))
             ELSE << >>
    ELSE << >>

\* run.js:763-770  the number of leading segments rootParts and tempParts share
CommonIndexFirstOnly(rootParts, tempParts) ==
    IF rootParts[1] = tempParts[1] THEN 1 ELSE 0

CommonIndex(rootParts, tempParts) ==
    LET same == {i \in 0..Min(Len(rootParts), Len(tempParts)) :
                    \A k \in 1..i : rootParts[k] = tempParts[k]}
    IN  CHOOSE i \in same : \A k \in same : k <= i

\* the root the strategy that decides the result compares the path with:
\* normalizedRoot of run.js:683 or 738, or the rootFolder run.js:760 splits
ComparedRoot(rootFolder, temp) ==
    IF TermuxRelative(rootFolder, temp) # << >> THEN StripTrailingSlashes(rootFolder)
    ELSE IF ContentRelative(rootFolder, temp) # << >> THEN ContentRoot(rootFolder)
    ELSE rootFolder

\* run.js:619-786  getRelativePath from the closure variables it reads: thrown
\* tells that an exception left it, path is the value it returned, root the
\* root that was compared
getRelativePath(projectFolder, pathName, filename, uri) ==
    LET absolute == makeUriAbsoluteIfNeeded(RootFolder(projectFolder, pathName, uri))
        isFtpRoot == StartsWith(absolute.str, FtpScheme)
                     \/ StartsWith(absolute.str, SftpScheme)
        rootFolder == IF isFtpRoot THEN StripQuery(absolute.str) ELSE absolute.str
        filePath == IF StartsWith(pathName, FtpScheme) \/ StartsWith(rootFolder, SftpScheme)
                    THEN StripQuery(pathName) ELSE pathName                 \* 665-669
        temp == UrlJoin(filePath, filename)                                 \* 672
        termux == TermuxRelative(rootFolder, temp)
        content == ContentRelative(rootFolder, temp)
        tempParts == Split(temp)
        commonIndex == CommonIndex(Split(rootFolder), tempParts)
    IN  IF ~absolute.ok THEN [thrown |-> TRUE, path |-> << >>, root |-> << >>]   \* 653
        ELSE [thrown |-> FALSE,
              root |-> ComparedRoot(rootFolder, temp),
              path |-> IF termux # << >> THEN termux                        \* 696
                       ELSE IF content # << >> THEN content                 \* 747
                       ELSE IF commonIndex > 0                              \* 772-774
                       THEN JoinParts(SubSeq(tempParts, commonIndex + 1, Len(tempParts)))
                       ELSE IF filename # << >> THEN filename               \* 780-782
                       ELSE temp]                                           \* 785

\* the uris and names the documents of the specification are built from: the
\* Termux home directory, a storage-access tree and its document id, an ftp
\* folder, a query string, and directory and file names
TermuxHome ==
    <<"/", "d", "a", "t", "a", "/", "d", "a", "t", "a", "/", "c", "o", "m", ".", "t",
    "e", "r", "m", "u", "x", "/", "f", "i", "l", "e", "s", "/", "h", "o", "m", "e">>

SafTree ==
    <<"c", "o", "n", "t", "e", "n", "t", ":", "/", "/", "d", "o", "c", "s", "/", "t",
    "r", "e", "e", "/", "p", "r", "i", "m", "a", "r", "y", "%", "3", "A", "p", "r", "o",
    "j">>

SafTreeDeep ==
    <<"c", "o", "n", "t", "e", "n", "t", ":", "/", "/", "d", "o", "c", "s", "/", "t",
    "r", "e", "e", "/", "p", "r", "i", "m", "a", "r", "y", "%", "3", "A", "a", "%", "2",
    "F", "p", "r", "o", "j">>

SafId ==
    <<"p", "r", "i", "m", "a", "r", "y", ":", "p", "r", "o", "j">>

SafIdDeep ==
    <<"p", "r", "i", "m", "a", "r", "y", ":", "a", "/", "p", "r", "o", "j">>

FtpFolder ==
    <<"f", "t", "p", ":", "/", "/", "h", "o", "s", "t", "/", "p", "r", "o", "j">>

SftpFolder ==
    <<"s", "f", "t", "p", ":", "/", "/", "h", "o", "s", "t", "/", "p", "r", "o", "j">>

Query ==
    <<"?", "m", "=", "p">>

SrcDir ==
    <<"s", "r", "c">>

IndexHtml ==
    <<"i", "n", "d", "e", "x", ".", "h", "t", "m", "l">>

BadEscape ==
    <<"%", "z", "z">>

(***************************************************************************)
(* Specification of the relative path: one preview about to be opened      *)
(* (run.js:791-797) for a document in pathName with the name filename, and *)
(* the step that computes its relative path.  rel is the path of the       *)
(* document below the project folder when it lies below it, empty when it  *)
(* does not or when no folder is open.                                     *)
(***************************************************************************)
NoFolder == [open |-> FALSE, url |-> << >>]
Folder(url) == [open |-> TRUE, url |-> url]

\* the part of path below root, empty when path is not strictly below root
Below(root, path) ==
    LET prefix == StripTrailingSlashes(root) \o << "/" >>
    IN  IF StartsWith(path, prefix) THEN StripLeadingSlashes(Slice(path, Len(prefix)))
        ELSE << >>

Document(projectFolder, pathName, filename, uri, rel) ==
    [pc |-> "open", projectFolder |-> projectFolder, pathName |-> pathName,
     filename |-> filename, uri |-> uri, rel |-> rel, relativePath |-> << >>,
     root |-> << >>, url |-> << >>]

\* the documents with plain paths: every folder of the specification as project
\* folder (or none), every directory as location of the document
DocFolders ==
    {dir \in Strings(MaxPathLen) :
        /\ Len(dir) >= 2 /\ dir[1] = "/" /\ dir[2] # "/"
        /\ dir[Len(dir)] # "/" /\ NoDoubleSlash(dir)}

FileNameStrings == {<< "j" >>, << >>}

PlainDocuments ==
    { Document(projectFolder, pathName, filename, UrlJoin(pathName, filename),
               IF projectFolder.open
               THEN Below(projectFolder.url, UrlJoin(pathName, filename)) ELSE << >>) :
        projectFolder \in {NoFolder} \cup {Folder(url) : url \in RootFolders},
        pathName \in DocFolders, filename \in FileNameStrings }

\* a document dir/index.html (dir empty: index.html) below the folder, whose
\* documents have the uris base/..., base being the url of the folder or the
\* url followed by "::" and the document id of the folder
DocumentBelow(projectFolder, base, query, dir) ==
    LET location == IF dir = << >> THEN base ELSE base \o << "/" >> \o dir
        rel == IF dir = << >> THEN IndexHtml ELSE dir \o << "/" >> \o IndexHtml
    IN  Document(projectFolder, location \o query, IndexHtml,
                 location \o << "/" >> \o IndexHtml \o query,
                 IF projectFolder.open THEN rel ELSE << >>)

Dirs == {<< >>, SrcDir}

TermuxAbsolute == TermuxRootEncoded \o DoubleColon \o TermuxHome

UriDocuments ==
    UNION { { DocumentBelow(Folder(SafTree), SafTree \o DoubleColon \o SafId, << >>, dir),
              DocumentBelow(NoFolder, SafTree \o DoubleColon \o SafId, << >>, dir),
              DocumentBelow(Folder(SafTreeDeep), SafTreeDeep \o DoubleColon \o SafIdDeep,
                            << >>, dir),
              DocumentBelow(Folder(TermuxAbsolute \o << "/" >>), TermuxAbsolute, << >>, dir),
              DocumentBelow(NoFolder, TermuxAbsolute, << >>, dir),
              DocumentBelow(Folder(TermuxRootEncoded), TermuxRootEncoded, << >>, dir),
              DocumentBelow(Folder(FtpFolder), FtpFolder, << >>, dir),
              DocumentBelow(Folder(FtpFolder \o Query), FtpFolder, Query, dir),
              DocumentBelow(Folder(SftpFolder \o Query), SftpFolder, Query, dir) }
          : dir \in Dirs }

\* documents whose uris hold a malformed escape: in the tree segment of a Termux
\* uri with and without "::", and in the last segment of a content: folder
MalformedDocuments ==
    { DocumentBelow(NoFolder,
                    ContentScheme \o TermuxDocuments \o << "/" >> \o TreeSlash \o BadEscape
                        \o DoubleColon \o TermuxHome, << >>, dir) : dir \in Dirs }
    \cup { DocumentBelow(NoFolder, TermuxRootEncoded \o BadEscape, << >>, dir) : dir \in Dirs }
    \cup { DocumentBelow(NoFolder, SafTree \o BadEscape \o DoubleColon \o SafId \o BadEscape,
                         << >>, dir) : dir \in Dirs }
    \cup { Document(Folder(SafTree \o BadEscape),
                    SafTree \o BadEscape \o DoubleColon \o SafId \o BadEscape,
                    IndexHtml,
                    SafTree \o BadEscape \o DoubleColon \o SafId \o BadEscape
                        \o << "/" >> \o IndexHtml, << >>) }

\* run.js:131-143  the console page of a session that startConsole() has set
\* up: activeFile is null or a script, pathName ends with a slash
AssetsWwwFolder ==
    <<"f", "i", "l", "e", ":", "/", "/", "/", "a", "n", "d", "r", "o", "i", "d", "_",
     "a", "s", "s", "e", "t", "/", "w", "w", "w", "/", "w", "w", "w", "/">>

ConsoleHtml ==
    <<"c", "o", "n", "s", "o", "l", "e", ".", "h", "t", "m", "l">>

ConsoleDocuments ==
    { Document(NoFolder, AssetsWwwFolder, ConsoleHtml, << >>, << >>) }

InitRelative ==
    /\ webServer = 0
    /\ servers = << >>
    /\ sessions = << >>
    /\ existing = {}
    /\ \E doc \in PlainDocuments \cup UriDocuments \cup MalformedDocuments
                     \cup ConsoleDocuments :
          reqs = << doc >>

\* run.js:796  openBrowser evaluates getRelativePath() (handleRequest does at
\* run.js:189)
RelativePath(r) ==
    /\ r \in ReqIds
    /\ reqs[r].pc = "open"
    /\ LET doc == reqs[r]
           res == getRelativePath(doc.projectFolder, doc.pathName, doc.filename, doc.uri)
       IN  reqs' = [reqs EXCEPT ![r].pc = IF res.thrown THEN "thrown" ELSE "opened",
                                ![r].relativePath = res.path,
                                ![r].root = res.root]
    /\ UNCHANGED <<webServer, servers, sessions, existing>>

NextRelative == \E r \in ReqIds : RelativePath(r)

SpecRelative == InitRelative /\ [][NextRelative]_vars

(***************************************************************************)
(* Specification of the round trip of the preview url: the preview of a    *)
(* document is opened on its relative path (run.js:796), and the request   *)
(* for that path, or for "/", which handleRequest replaces by the relative *)
(* path (run.js:188-190), is resolved by sendByExt (run.js:264-356).       *)
(***************************************************************************)
\* run.js:265-283  rootFolder of sendByExt before its trailing slashes are cut
DispatchRoot(projectFolder, pathName) ==
    LET rootFolder == IF projectFolder.open /\ Includes(pathName, projectFolder.url)
                      THEN projectFolder.url ELSE pathName
    IN  IF (StartsWith(rootFolder, FtpScheme) \/ StartsWith(rootFolder, SftpScheme))
           /\ Includes(rootFolder, QuestionMark)
        THEN At(SplitBy(rootFolder, QuestionMark), 0)
        ELSE rootFolder

\* run.js:266, 285-356  url of sendByExt for a target that is a file
DispatchUrl(projectFolder, pathName, uri, reqPath) ==
    LET query == At(SplitBy(uri, QuestionMark), 1)
        fullPath == FullPath(DispatchRoot(projectFolder, pathName), reqPath)
    IN  IF query # << >> THEN fullPath \o QuestionMark \o query ELSE fullPath

\* the request for the preview url reaches run.js:356; root tells that the
\* request is for "/" and not for the relative path itself
ResolveBack(r, root) ==
    /\ r \in ReqIds
    /\ reqs[r].pc = "opened"
    /\ reqs[r].uri # << >>
    /\ IF root
       THEN reqs' = [reqs EXCEPT
                ![r].pc = IF getRelativePath(reqs[r].projectFolder, reqs[r].pathName,
                                             reqs[r].filename, reqs[r].uri).thrown
                          THEN "thrown" ELSE "resolved",
                ![r].url = DispatchUrl(reqs[r].projectFolder, reqs[r].pathName, reqs[r].uri,
                               getRelativePath(reqs[r].projectFolder, reqs[r].pathName,
                                               reqs[r].filename, reqs[r].uri).path)]
       ELSE reqs' = [reqs EXCEPT
                ![r].pc = "resolved",
                ![r].url = DispatchUrl(reqs[r].projectFolder, reqs[r].pathName, reqs[r].uri,
                                       reqs[r].relativePath)]
    /\ UNCHANGED <<webServer, servers, sessions, existing>>

NextRoundTrip ==
    \/ \E r \in ReqIds : RelativePath(r)
    \/ \E r \in ReqIds, root \in BOOLEAN : ResolveBack(r, root)

SpecRoundTrip == InitRelative /\ [][NextRoundTrip]_vars

(***************************************************************************)
(* run.js:447-488  sendHTML.  A text is the sequence of its tags and text  *)
(* runs.  A token is a tag or a run of text; class is its class attribute, *)
(* cross the number of crossorigin attributes line 478 has added to it.    *)
(* The two script elements of the injected block are one token each.       *)
(***************************************************************************)
Tok(tag) == [tag |-> tag, class |-> "", cross |-> 0]

\* the tokens of the documents of the specification
HtmlTokens ==
    {Tok(tag) : tag \in {"<html>", "<HTML>", "<head>", "<script>", "</script>", "text"}}

\* run.js:448-477  js: comment, viewport meta, the script element that loads
\* CONSOLE_SCRIPT, the inline script element, comment; both script elements
\* have the class uuid
InjectedComment == Tok("<!-- Injected code -->")
ViewportMeta == Tok("<meta viewport>")
ConsoleScriptElement == [tag |-> "<script src></script>", class |-> "uuid", cross |-> 1]
InlineScriptElement == [tag |-> "<script>inline</script>", class |-> "uuid", cross |-> 0]

InjectedBlock ==
    << InjectedComment, ViewportMeta, ConsoleScriptElement, InlineScriptElement,
       InjectedComment >>

\* the tokens that end with ">"
EndsWithBracket(tok) == tok.tag \notin {"text"}

\* run.js:478  text.replace(/><\/script>/g, ...): the matches do not overlap, so
\* a "</script>" is matched when the token before it ends with ">" and is not a
\* matched "</script>" itself
RECURSIVE Matched(_, _)
Matched(text, i) ==
    /\ i > 1 /\ i <= Len(text)
    /\ text[i].tag = "</script>"
    /\ EndsWithBracket(text[i - 1])
    /\ ~Matched(text, i - 1)

\* the token before a matched "</script>" gets the attribute, and so does the
\* script element that loads CONSOLE_SCRIPT, whose own text holds a match
AddCrossorigin(text) ==
    [i \in 1..Len(text) |->
        IF Matched(text, i + 1) \/ text[i].tag = ConsoleScriptElement.tag
        THEN [text[i] EXCEPT !.cross = @ + 1] ELSE text[i]]

IsHtmlTag(tok) == tok.class = "" /\ tok.cross = 0 /\ tok.tag \in {"<html>", "<HTML>"}

\* the first of the positions hits
First(hits) == CHOOSE i \in hits : \A k \in hits : i <= k

InsertAfter(text, i, tokens) == SubSeq(text, 1, i) \o tokens \o SubSeq(text, i + 1, Len(text))

\* run.js:478-486  the text sendHTML passes to sendText
Instrument(text0) ==
    LET text == AddCrossorigin(text0)                                        \* 478
        IsHead(tok) == tok = Tok("<head>")
        IsLowerHtml(tok) == tok = Tok("<html>")
        heads == {i \in 1..Len(text) : IsHead(text[i])}
    IN  IF Cardinality(heads) = 1                                            \* 479-481
        THEN InsertAfter(text, First({i \in DOMAIN text : IsHead(text[i])}), InjectedBlock)
        ELSE IF \E i \in 1..Len(text) : IsHtmlTag(text[i])                   \* 482
        THEN IF \E i \in 1..Len(text) : IsLowerHtml(text[i])                 \* 483
             THEN InsertAfter(text, First({i \in DOMAIN text : IsLowerHtml(text[i])}),
                              << Tok("<head>") >> \o InjectedBlock \o << Tok("</head>") >>)
             ELSE text
        ELSE << Tok("<head>") >> \o InjectedBlock \o << Tok("</head>") >> \o text   \* 485

\* run.js:473-476  the timer callback of the inline script: every element of the
\* class uuid is removed from document.head
SelfRemoveFirstOnly(dom) ==
    LET IsTagged(tok) == tok.class = "uuid"
    IN  IF \E i \in 1..Len(dom) : IsTagged(dom[i])
        THEN SubSeq(dom, 1, First({i \in DOMAIN dom : IsTagged(dom[i])}) - 1)
             \o SubSeq(dom, First({i \in DOMAIN dom : IsTagged(dom[i])}) + 1, Len(dom))
        ELSE dom

SelfRemove(dom) == SelectSeq(dom, LAMBDA tok : tok.class # "uuid")

(***************************************************************************)
(* Specification of the instrumentation: one HTML text that is given to    *)
(* sendHTML, up to MaxInjections times (the text sent is given to it       *)
(* again), then loaded by the browser, whose next timer tick runs the      *)
(* callback of the inline script.  html is the text as it stands.          *)
(***************************************************************************)
HtmlTexts == UNION {[1..n -> HtmlTokens] : n \in 0..MaxTextLen}

InitInject ==
    /\ webServer = 0
    /\ servers = << >>
    /\ sessions = << >>
    /\ existing = {}
    /\ \E text \in HtmlTexts :
          reqs = << [pc |-> "html", text |-> text, html |-> text, injections |-> 0] >>

SendHtml(r) ==
    /\ r \in ReqIds
    /\ reqs[r].pc = "html"
    /\ reqs[r].injections < MaxInjections
    /\ reqs' = [reqs EXCEPT ![r].html = Instrument(@), ![r].injections = @ + 1]
    /\ UNCHANGED <<webServer, servers, sessions, existing>>

LoadPage(r) ==
    /\ r \in ReqIds
    /\ reqs[r].pc = "html"
    /\ reqs[r].injections > 0
    /\ reqs' = [reqs EXCEPT ![r].pc = "loaded"]
    /\ UNCHANGED <<webServer, servers, sessions, existing>>

NextTick(r) ==
    /\ r \in ReqIds
    /\ reqs[r].pc = "loaded"
    /\ reqs' = [reqs EXCEPT ![r].pc = "ticked", ![r].html = SelfRemove(@)]
    /\ UNCHANGED <<webServer, servers, sessions, existing>>

NextInject ==
    \/ \E r \in ReqIds : SendHtml(r)
    \/ \E r \in ReqIds : LoadPage(r)
    \/ \E r \in ReqIds : NextTick(r)

SpecInject == InitInject /\ [][NextInject]_vars

(***************************************************************************)
(* run.js:378-382  slugify, the function markdown-it-anchor computes the   *)
(* id of a heading with.  A heading is the sequence of its characters.     *)
(***************************************************************************)
\* String.prototype.toLowerCase for the letters of the specification
LowerCase(c) ==
    CASE c = "A" -> "a"
      [] c = "H" -> "h"
      [] c = "W" -> "w"
      [] OTHER -> c

toLowerCase(s) == [i \in 1..Len(s) |-> LowerCase(s[i])]

\* String.prototype.trim
RECURSIVE trim(_)
trim(s) ==
    IF s # << >> /\ s[1] = " " THEN trim(Tail(s))
    ELSE IF s # << >> /\ s[Len(s)] = " " THEN trim(SubSeq(s, 1, Len(s) - 1))
    ELSE s

\* the characters /[a-z0-9]/ matches among those of the specification
SlugAlphanumeric == {"a", "d", "e", "h", "l", "o", "r", "w", "1"}

\* s.replace(/[^a-z0-9]+/g, "-"): every maximal run of other characters
\* becomes one hyphen
RECURSIVE ReplaceRuns(_)
ReplaceRuns(s) ==
    IF s = << >> THEN << >>
    ELSE IF s[1] \in SlugAlphanumeric THEN << s[1] >> \o ReplaceRuns(Tail(s))
    ELSE IF Len(s) > 1 /\ s[2] \notin SlugAlphanumeric THEN ReplaceRuns(Tail(s))
    ELSE << "-" >> \o ReplaceRuns(Tail(s))

slugify(s) == ReplaceRuns(toLowerCase(trim(s)))

(***************************************************************************)
(* Specification of the heading anchors: one heading of a markdown         *)
(* document that is rendered (run.js:375-386), and the step that gives it  *)
(* its anchor.                                                             *)
(***************************************************************************)
HeadingChars == {"A", "a", "1", " ", "!"}

HelloWorld ==
    <<"H", "e", "l", "l", "o", " ", "W", "o", "r", "l", "d", "!">>

Headings == UNION {[1..n -> HeadingChars] : n \in 0..MaxHeadingLen} \cup {HelloWorld}

InitSlug ==
    /\ webServer = 0
    /\ servers = << >>
    /\ sessions = << >>
    /\ existing = {}
    /\ \E heading \in Headings :
          reqs = << [pc |-> "heading", heading |-> heading, slug |-> << >>] >>

RenderHeading(r) ==
    /\ r \in ReqIds
    /\ reqs[r].pc = "heading"
    /\ reqs' = [reqs EXCEPT ![r].pc = "anchored", ![r].slug = slugify(reqs[r].heading)]
    /\ UNCHANGED <<webServer, servers, sessions, existing>>

NextSlug == \E r \in ReqIds : RenderHeading(r)

SpecSlug == InitSlug /\ [][NextSlug]_vars

(***************************************************************************)
(* Properties.                                                             *)
(***************************************************************************)
\* the positions of sendFile between its isLoading = true and its end
FetchPcs == {"sf_read", "sf_format", "sf_oread", "sf_oexists", "sf_create", "sf_write"}

InFlight(s) == {r \in ReqIds : reqs[r].sess = s /\ reqs[r].pc \in FetchPcs}

Queued(s) == {r \in ReqIds : reqs[r].sess = s /\ reqs[r].pc = "queued"}

Remote(url) == IsFtp(GetProtocol(url.root))

\* C1: in every session at most one sendFile fetch is in flight, and while one is
\* in flight the flag is set, so that every further sendFile call has only queued
\* its continuation: the queued requests have started no read.
C1_OneFetchInFlight ==
    \A s \in SessionIds :
        /\ Cardinality(InFlight(s)) <= 1
        /\ InFlight(s) # {} => sessions[s].isLoading
        /\ \A r \in Queued(s) : reqs[r].reads = 0 /\ reqs[r].status = 0

C1_Witness ==
    \E s \in SessionIds : \E r1 \in InFlight(s) : \E r2 \in Queued(s) :
        r1 < r2 /\ Remote(reqs[r1].url)

\* C2: the queued continuations run in FIFO order: whenever a step takes
\* continuations from the queue, what remains is a suffix of the former queue
\* (the oldest entries left first).
C2_FifoOrder ==
    [][\A s \in SessionIds :
          LET q == sessions[s].queue
              qn == sessions'[s].queue
          IN  Len(qn) < Len(q) => qn = SubSeq(q, Len(q) - Len(qn) + 1, Len(q))]_vars

\* C3: when the remote read of an ftp:/sftp: fetch fails, the request is answered
\* 404 and, if a continuation is queued, one is dequeued and run in the same step.
C3_FailedReadRunsNext ==
    [][\A r \in ReqIds :
          (reqs[r].pc = "sf_read" /\ reqs'[r].pc # "sf_read" /\ reqs'[r].status # 200)
          => /\ reqs'[r].status = 404
             /\ sessions[reqs[r].sess].queue # << >>
                => Len(sessions'[reqs[r].sess].queue) < Len(sessions[reqs[r].sess].queue)]_vars

\* the sendFile requests of session s for url that were answered 200
Served(s, url) ==
    {r \in ReqIds : reqs[r].sess = s /\ reqs[r].sf /\ reqs[r].url = url /\ reqs[r].status = 200}

RECURSIVE SumReads(_)
SumReads(rset) ==
    IF rset = {} THEN 0
    ELSE LET r == CHOOSE x \in rset : TRUE IN reqs[r].reads + SumReads(rset \ {r})

\* C4 as stated: two requests for the same remote URI, both answered 200, took
\* exactly one remote read.
C4_OneReadForTwo ==
    \A s \in SessionIds : \A r1, r2 \in ReqIds :
        (r1 # r2 /\ Remote(reqs[r1].url) /\ {r1, r2} \subseteq Served(s, reqs[r1].url))
        => SumReads({r1, r2}) = 1

\* C4 amended: two requests for the same remote URI, both answered 200, took one
\* remote read each (two reads, never at the same time), and both responses carry
\* the same path, the cache path of the URI.
C4_OneReadEach ==
    \A s \in SessionIds : \A r1, r2 \in ReqIds :
        (r1 # r2 /\ Remote(reqs[r1].url) /\ {r1, r2} \subseteq Served(s, reqs[r1].url))
        => /\ reqs[r1].reads = 1 /\ reqs[r2].reads = 1
           /\ reqs[r1].body = reqs[r2].body
           /\ reqs[r1].body = [kind |-> "cache", of |-> reqs[r1].url]

C4_Witness ==
    \E s \in SessionIds : \E r1, r2 \in ReqIds :
        /\ r1 < r2 /\ Remote(reqs[r1].url)
        /\ {r1, r2} \subseteq Served(s, reqs[r1].url)

\* C5: no failure inside a fetch leaves the in-flight flag set: whenever the flag
\* of a session is set, a fetch of that session is in flight.
C5_FlagClearedAfterFailure ==
    \A s \in SessionIds : sessions[s].isLoading => InFlight(s) # {}

\* C6: no path through handleRequest, sendByExt, sendFileContent or sendFile ends
\* without a send: a request whose handling has ended has a response.
C6_EveryPathSends ==
    \A r \in ReqIds : reqs[r].pc \in {"done", "thrown"} => reqs[r].status \in {200, 404}

C8_AtMostOneServer ==
    /\ Cardinality({h \in Handles : servers[h].state # "stopped"}) <= 1
    /\ \A h \in Handles : h < Len(servers) => servers[h].state = "stopped"

C8_Witness ==
    /\ Len(servers) = MaxHandles
    /\ servers[Len(servers)].state = "listening"
    /\ \E h \in Handles : servers[h].sess # servers[Len(servers)].sess

\* C9 as stated: no state has the state of a newer session while the server of an
\* older session is still listening.
C9_NoStateBeforeStop ==
    \A s1, s2 \in SessionIds :
        s1 < s2 => ~ \E h \in Handles : servers[h].sess = s1 /\ servers[h].state = "listening"

\* C9 amended: a session creates its server only after the server created before
\* has been stopped: in every step that creates a handle, all older handles are
\* stopped afterwards.
C9_StopBeforeCreate ==
    [][Len(servers') > Len(servers)
       => \A h \in 1..Len(servers) : servers'[h].state = "stopped"]_vars

C9_Witness ==
    \E h1, h2 \in Handles :
        /\ servers[h1].sess < servers[h2].sess
        /\ servers[h1].state = "stopped" /\ ~servers[h1].cb
        /\ servers[h2].state = "listening"
        /\ sessions[servers[h1].sess].opened # 0

SessionHandles(s) == {h \in Handles : servers[h].sess = s}

InitialPort(s) == IF sessions[s].isConsole THEN ConsolePort ELSE ServerPort

\* C11 as stated: every bind failure for a reason other than same-owner increments
\* the port of the session by one and starts, in the same step, a new bind
\* attempt of the session on the new port.
C11_RetryOnNextPort ==
    [][\A h \in Handles :
          BindError(h, "EADDRINUSE")
          => LET s == servers[h].sess
             IN  /\ sessions'[s].port = sessions[s].port + 1
                 /\ Len(servers') = Len(servers) + 1
                 /\ servers'[Len(servers')] = CreateServer(s, sessions[s].port + 1)]_vars

\* C11 amended: every bind failure for a reason other than same-owner increments
\* the port of the session by one, opens no browser and calls start(): with the
\* in-app target the new bind attempt on the new port starts at once, with the
\* browser target the session first waits for the power-save check, which starts
\* the attempt on that port when it reports off or fails and starts none when it
\* reports on.  The k-th handle of a session binds its initial port plus k-1, and
\* the browser is opened, for the first time, on the port of the bind that
\* succeeds.
C11_RetryThroughStart ==
    [][/\ \A h \in Handles :
            LET s == servers[h].sess
                p == sessions[s].port
            IN  /\ BindError(h, "EADDRINUSE")
                   => /\ sessions'[s].port = p + 1
                      /\ sessions'[s].opened = sessions[s].opened
                      /\ IF sessions[s].target = "browser"
                         THEN /\ Len(servers') = Len(servers)
                              /\ sessions'[s].pc = "powersave"
                         ELSE /\ Len(servers') = Len(servers) + 1
                              /\ servers'[Len(servers')] = CreateServer(s, p + 1)
                /\ BindSuccess(h)
                   => /\ sessions[s].opened = 0
                      /\ sessions'[s].opened = servers[h].port
                      /\ sessions'[s].port = servers[h].port
       /\ \A s \in SessionIds :
            /\ (PowerSave(s, "off") \/ PowerSave(s, "error"))
               => /\ Len(servers') = Len(servers) + 1
                  /\ servers'[Len(servers')] = CreateServer(s, sessions[s].port)
            /\ PowerSave(s, "on")
               => Len(servers') = Len(servers) /\ sessions'[s].pc = "alerted"
       /\ Len(servers') > Len(servers)
          => LET h == Len(servers')
                 s == servers'[h].sess
             IN  servers'[h].port
                    = (IF sessions'[s].isConsole THEN ConsolePort ELSE ServerPort)
                      + Cardinality({g \in Handles : servers[g].sess = s})]_vars

\* a browser-target session whose first bind failed and whose second, on the
\* next port, succeeded after the power-save check
C11_Witness ==
    \E s \in SessionIds : \E h1, h2 \in SessionHandles(s) :
        /\ sessions[s].target = "browser"
        /\ servers[h1].port = InitialPort(s)
        /\ ~servers[h1].cb
        /\ servers[h2].port = InitialPort(s) + 1
        /\ servers[h2].state = "listening"
        /\ sessions[s].opened = servers[h2].port

\* the positions of a handler inside sendByExt and sendFile
ExtPcs == {"stat", "queued"} \cup FetchPcs

\* C12: a request whose path equals one of the three synthetic endpoint names of
\* its session is taken by the case of that endpoint and never reaches the
\* extension-based dispatch: no stat, no document lookup, no sendFile.
C12_EndpointsBeforeDispatch ==
    \A r \in ReqIds :
        LET rq == reqs[r]
            ss == sessions[rq.sess]
        IN  rq.path \in {CONSOLE_SCRIPT, ss.execScript, MARKDOWN_STYLE}
            => /\ rq.path = CONSOLE_SCRIPT => rq.handler = "CONSOLE_SCRIPT"
               /\ rq.path = ss.execScript => rq.handler = "EXECUTING_SCRIPT"
               /\ rq.path = MARKDOWN_STYLE => rq.handler = "MARKDOWN_STYLE"
               /\ rq.pc \notin ExtPcs
               /\ rq.file = ""
               /\ ~rq.sf

\* the markdown stylesheet was requested in a session that runs a .js file
C12_Witness ==
    \E r \in ReqIds :
        /\ reqs[r].path = MARKDOWN_STYLE
        /\ reqs[r].handler = "MARKDOWN_STYLE"
        /\ reqs[r].status = 200
        /\ sessions[reqs[r].sess].isConsole
        /\ sessions[reqs[r].sess].hasFile

\* the endings of the endpoint names (run.js:68-71), and the names that are the
\* token followed by one of them
EndpointSuffixes == {"_script.js", "_console.js", "_md.css"}

HasToken(name) == \E suffix \in EndpointSuffixes : name = Token \o suffix

\* the file names of the documents a session can be started on
FileNames == {af.filename : af \in ActiveFiles}

\* C13 as stated: in every session the three endpoint names begin with the token
\* of the session, and none of them is the name of a project file.
C13_AllNamesHaveToken ==
    \A s \in SessionIds :
        \A name \in {sessions[s].execScript, CONSOLE_SCRIPT, MARKDOWN_STYLE} :
            HasToken(name) /\ name \notin FileNames

\* C13 amended: in every session the console-bootstrap and markdown-stylesheet
\* names begin with the token; the executing-script name is <token>_script.js
\* except in a session that startConsole made a console session for a .js file,
\* where it is the name of that file.
C13_TokenNamesButRunFile ==
    /\ \A name \in {CONSOLE_SCRIPT, MARKDOWN_STYLE} : HasToken(name) /\ name \notin FileNames
    /\ \A s \in SessionIds :
          IF sessions[s].hasFile /\ sessions[s].isConsole
          THEN /\ sessions[s].execScript = sessions[s].file.filename
               /\ Extname(sessions[s].execScript) = ".js"
               /\ ~HasToken(sessions[s].execScript)
          ELSE /\ sessions[s].execScript = Token \o "_script.js"
               /\ sessions[s].execScript \notin FileNames

\* a session started on main.js serves its console, and a console session started
\* without a document exists as well
C13_Witness ==
    \E s1, s2 \in SessionIds :
        /\ sessions[s1].hasFile /\ sessions[s1].isConsole
        /\ sessions[s1].execScript = "main.js"
        /\ sessions[s1].opened = ConsolePort
        /\ ~sessions[s2].hasFile /\ sessions[s2].isConsole
        /\ sessions[s2].pc = "started"

\* C14: a request whose path is the executing-script endpoint name of its session
\* is answered 200 in the step that delivers it, with the editor text of the
\* session's activeFile (the empty text when the session has none) and
\* Content-Type application/javascript, whatever the state of the document.
C14_ExecutingScriptFromEditor ==
    \A r \in ReqIds :
        LET rq == reqs[r]
            ss == sessions[rq.sess]
        IN  (rq.path = ss.execScript /\ rq.path # CONSOLE_SCRIPT)
            => /\ rq.pc = "done"
               /\ rq.status = 200
               /\ rq.ctype = "application/javascript"
               /\ rq.body.kind = "text"
               /\ rq.body.text = IF ss.hasFile THEN "activeFile.session" ELSE ""

\* the executing script of a session that runs main.js was served
C14_Witness ==
    \E r \in ReqIds :
        /\ reqs[r].path = sessions[reqs[r].sess].execScript
        /\ reqs[r].path = "main.js"
        /\ sessions[reqs[r].sess].hasFile
        /\ reqs[r].status = 200
        /\ reqs[r].body.text = "activeFile.session"

\* C15: a request for the console-bootstrap endpoint reads the bundled legacy
\* console script when the session is a console session or the console setting
\* is legacy, and the inspector script otherwise; when the script has been read
\* the request is answered 200 with its content, and every 200 answer to the
\* endpoint has Content-Type application/javascript.
C15_ConsoleScriptSelection ==
    [][/\ \A s \in SessionIds, legacy \in BOOLEAN, mdStyle \in BOOLEAN, doc \in ActiveDocs :
            Deliver(s, MaxRouted, CONSOLE_SCRIPT, legacy, mdStyle, doc)
            => LET rq == reqs'[Len(reqs')]
               IN  /\ rq.handler = "CONSOLE_SCRIPT"
                   /\ rq.pc = "sfc_exists"
                   /\ rq.mime = "application/javascript"
                   /\ rq.url = IF sessions[s].isConsole \/ legacy
                                THEN ConsoleBuildUrl ELSE ErudaUrl
       /\ \A r \in ReqIds :
            reqs[r].handler = "CONSOLE_SCRIPT"
            => /\ reqs'[r].url = reqs[r].url
               /\ SfcRead(r, "ok")
                  => /\ reqs'[r].status = 200
                     /\ reqs'[r].body.kind = "text"
                     /\ reqs'[r].body.text = "readFile"
               /\ reqs'[r].status = 200 => reqs'[r].ctype = "application/javascript"]_vars

\* the inspector script was served in a session that is not a console session
C15_Witness ==
    \E r \in ReqIds :
        /\ reqs[r].handler = "CONSOLE_SCRIPT"
        /\ ~sessions[reqs[r].sess].isConsole
        /\ reqs[r].url = ErudaUrl
        /\ reqs[r].status = 200
        /\ reqs[r].ctype = "application/javascript"

\* C16: a request for the markdown-stylesheet endpoint is always answered 200 with
\* Content-Type text/css, with the content of the configured stylesheet or with
\* the fallback CSS: when its handling has ended it has that response.
C16_StylesheetAlways200 ==
    \A r \in ReqIds :
        (reqs[r].handler = "MARKDOWN_STYLE" /\ reqs[r].pc \in {"done", "thrown"})
        => /\ reqs[r].status = 200
           /\ reqs[r].ctype = "text/css"
           /\ \/ reqs[r].url = MarkdownStyleUrl /\ reqs[r].body.text = "readFile"
              \/ reqs[r].url = NoUrl /\ reqs[r].body.text = "img {max-width: 100%;}"

\* the requests of single-file sessions that reached sendByExt
SingleMode(r) ==
    /\ sessions[reqs[r].sess].hasFile
    /\ sessions[reqs[r].sess].file.mode = "single"
    /\ reqs[r].handler = "sendByExt"

\* C17 as stated: in single-file mode a non-synthetic request is answered 200, with
\* the editor text and the MIME type of the active filename, when its path is
\* that filename, and 404 otherwise.
C17_SingleOnlyActiveFile ==
    \A r \in ReqIds :
        SingleMode(r)
        => LET rq == reqs[r]
               name == sessions[rq.sess].file.filename
           IN  IF rq.path = name
               THEN /\ rq.status = 200
                    /\ rq.body.text = "activeFile.session"
                    /\ MimeLookup(Extname(name)) # "false"
                       => rq.ctype = MimeLookup(Extname(name))
               ELSE rq.status = 404

\* C17 amended: in a single-file session that is not a console session, a
\* non-synthetic request is answered 200 when its path is the active filename,
\* with the editor text and the MIME type looked up for that filename (text/html
\* when none is known), and 404 otherwise.  In a single-file session that runs a
\* .js file, console.html is answered 200 with the console page, favicon.ico is
\* given to sendFile with the packaged icon, and every other non-synthetic path
\* is answered 404.
C17_SingleServesFilename ==
    \A r \in ReqIds :
        SingleMode(r)
        => LET rq == reqs[r]
               ss == sessions[rq.sess]
               mime == MimeLookup(Extname(ss.filename))
           IN  CASE ss.isConsole /\ rq.path = "console.html" ->
                        /\ rq.status = 200
                        /\ rq.body.text = "console.hbs"
                        /\ rq.ctype = "text/html"
                 [] ss.isConsole /\ rq.path = "favicon.ico" ->
                        /\ rq.sf /\ rq.url = IcoUrl
                        /\ rq.status \in {0, 200}
                 [] ~ss.isConsole /\ rq.path = ss.filename ->
                        /\ ss.filename = ss.file.filename
                        /\ rq.status = 200
                        /\ rq.body.text = "activeFile.session"
                        /\ rq.ctype = IF mime = "false" THEN "text/html" ELSE mime
                 [] OTHER -> rq.status = 404 /\ rq.body = TextBody("File not found!")

\* a single-file session answered a request for another path than its file
C17_Witness ==
    \E r \in ReqIds :
        /\ SingleMode(r)
        /\ ~sessions[reqs[r].sess].isConsole
        /\ sessions[reqs[r].sess].filename = "LICENSE"
        /\ reqs[r].path = "main.js"
        /\ reqs[r].status = 404

\* C18: a request for a .md path for which no editor document is open is
\* answered 404 when its handling has ended, whether the file exists or not.
C18_MdWithoutDocument404 ==
    \A r \in ReqIds :
        LET rq == reqs[r]
        IN  (/\ rq.handler = "sendByExt"
             /\ Extname(rq.path) = ".md"
             /\ rq.file \notin {"saved", "unsaved"}
             /\ rq.pc = "done")
            => rq.status = 404

\* the positions of a handler inside sendFileContent
SfcPcs == {"sfc_exists", "sfc_xexists", "sfc_read"}

\* the requests with extension .html or .htm that sendByExt has resolved to a
\* target and looked up among the editor's documents
HtmlResolved(r) ==
    /\ reqs[r].handler = "sendByExt"
    /\ Extname(reqs[r].path) \in {".html", ".htm"}
    /\ sessions[reqs[r].sess].pathName # ""
    /\ reqs[r].file \in Docs

\* C19: a request with extension .html or .htm in folder mode is answered from
\* the editor buffer exactly when the document found for the resolved target is
\* unsaved; otherwise sendFileContent reads the file at the resolved target, and
\* a 200 answer carries what was read there; both have Content-Type text/html.
C19_HtmlBufferOrFile ==
    \A r \in ReqIds :
        HtmlResolved(r)
        => LET rq == reqs[r]
               ss == sessions[rq.sess]
           IN  /\ rq.url.root = ss.pathName
               /\ rq.url.name \in {rq.path, rq.path \o "/index.html"}
               /\ ~rq.sf
               /\ rq.status = 200 => rq.body.kind = "html" /\ rq.ctype = "text/html"
               /\ IF rq.file = "unsaved"
                  THEN /\ rq.pc = "done"
                       /\ rq.status = 200
                       /\ rq.body.text = "file.session"
                  ELSE /\ rq.pc \in SfcPcs \cup {"done", "thrown"}
                       /\ rq.mime = "text/html"
                       /\ rq.status = 200 => rq.body.text = "readFile"

\* page.htm, open and saved in the editor, was read from its file and served
C19_Witness ==
    \E r \in ReqIds :
        /\ HtmlResolved(r)
        /\ reqs[r].path = "page.htm"
        /\ reqs[r].file = "saved"
        /\ reqs[r].status = 200
        /\ reqs[r].body.text = "readFile"

\* C20: the request with root folder R and root-relative path p is resolved to
\* the target R/p, R taken without its trailing slash: nothing of p is dropped
\* or merged with the end of R.
C20_ResolvesToRootSlashPath ==
    \A r \in ReqIds :
        reqs[r].pc = "stat"
        => reqs[r].fullPath = StripTrailingSlashes(reqs[r].root) \o << "/" >> \o reqs[r].path

\* C21: a request for favicon.ico for which no open unsaved document exists is
\* answered 200 with the packaged default icon (sessions in single-file mode
\* aside, which serve only their own file): when its handling has ended it has
\* that response.
C21_FaviconDefaultIcon ==
    \A r \in ReqIds :
        LET rq == reqs[r]
            ss == sessions[rq.sess]
        IN  (/\ rq.path = "favicon.ico"
             /\ rq.handler = "sendByExt"
             /\ rq.file # "unsaved"
             /\ ~(ss.hasFile /\ ss.file.mode = "single")
             /\ rq.pc \in {"done", "thrown"})
            => /\ rq.status = 200
               /\ rq.body = [kind |-> "file", of |-> IcoUrl]

\* the requests that reached sendByExt for a path with neither an open document
\* nor a file: any path but the console page and the icon in a session started
\* without a document, any path but the active filename in a single-file
\* session, and a path without html or markdown extension in a session on a
\* document that has no uri
NoDocumentNoFile(rq, ss) ==
    /\ rq.handler = "sendByExt"
    /\ \/ ~ss.hasFile /\ rq.path \notin {"console.html", "favicon.ico"}
       \/ ss.hasFile /\ ~ss.isConsole /\ ss.file.mode = "single" /\ rq.path # ss.filename
       \/ /\ ss.hasFile /\ ~ss.isConsole /\ ss.file.mode # "single"
          /\ ss.pathName = "" /\ rq.file # "unsaved"
          /\ Extname(rq.path) \notin {".html", ".htm", ".md"}

\* C22: handling a request for a path that has neither an open document nor an
\* existing file ends in a 404 response and never in an uncaught exception, in
\* every session mode: the step that finds the target missing, or that delivers
\* a request nothing can be resolved for, answers 404.
C22_MissingIs404 ==
    [][/\ \A r \in ReqIds, doc \in Docs :
            StatDone(r, "missing", doc)
            => reqs'[r].status = 404 /\ reqs'[r].pc = "done"
       /\ \A r \in 1..Len(reqs') :
            NoDocumentNoFile(reqs'[r], sessions'[reqs'[r].sess])
            => reqs'[r].status = 404 /\ reqs'[r].pc = "done"]_vars

\* str ends t at the beginning of one of its segments
IsEndOf(str, t) ==
    /\ Len(str) <= Len(t)
    /\ SubSeq(t, Len(t) - Len(str) + 1, Len(t)) = str
    /\ Len(str) = Len(t) \/ t[Len(t) - Len(str)] = "/"

\* C23: for a document that lies strictly below the normalized project folder,
\* getRelativePath returns a path without leading slash in which nothing of the
\* folder's url is left: it is not empty, does not begin with the folder's url
\* and is an end of the document's path below the folder.
C23_RelativeWithoutRoot ==
    \A r \in ReqIds :
        (reqs[r].pc \in {"opened", "thrown"} /\ reqs[r].rel # << >>)
        => LET path == reqs[r].relativePath
               root == StripTrailingSlashes(reqs[r].projectFolder.url)
           IN  /\ reqs[r].pc = "opened"
               /\ path # << >>
               /\ path[1] # "/"
               /\ ~StartsWith(path, root)
               /\ IsEndOf(path, reqs[r].rel)

\* the relative path of src/index.html below a storage-access tree was computed
C23_Witness ==
    \E r \in ReqIds :
        /\ reqs[r].pc = "opened"
        /\ reqs[r].projectFolder = Folder(SafTree)
        /\ reqs[r].rel = SrcDir \o << "/" >> \o IndexHtml
        /\ reqs[r].relativePath = reqs[r].rel

\* C24: no exception escapes getRelativePath: whatever decoding step fails, a
\* value is returned.
C24_NoDecodeEscapes ==
    \A r \in ReqIds : reqs[r].pc # "thrown"

\* the first directory of a plain path
FirstDir(str) == At(Split(StripLeadingSlashes(str)), 0)

\* C25: for a plain project folder and a plain document path that have no common
\* leading directory, getRelativePath returns the bare filename, and the
\* combined path when no filename is known.
C25_FallbackIsFilename ==
    \A r \in ReqIds :
        LET doc == reqs[r]
        IN  (/\ doc.pc = "opened"
             /\ doc.projectFolder.open
             /\ ~Includes(doc.uri, ContentScheme)
             /\ Includes(doc.pathName, doc.projectFolder.url)
             /\ FirstDir(doc.projectFolder.url) # FirstDir(doc.pathName))
            => doc.relativePath = IF doc.filename # << >> THEN doc.filename
                                  ELSE UrlJoin(doc.pathName, doc.filename)

IsInline(tok) == tok.tag = InlineScriptElement.tag

\* the injected block stands in text right behind position i
BlockAt(text, i, tokens) ==
    /\ i + Len(tokens) <= Len(text)
    /\ SubSeq(text, i + 1, i + Len(tokens)) = tokens

\* C26: the text sendHTML sends for an HTML text contains the injected block
\* exactly once: right behind the <head> tag when the text has one; otherwise
\* in a synthesized head right behind the first <html> tag, whatever its letter
\* case; otherwise in a head block in front of the text.
C26_BlockInjectedOnce ==
    \A r \in ReqIds :
        reqs[r].injections = 1
        => LET text == reqs[r].text
               html == reqs[r].html
               IsHead(tok) == tok.tag = "<head>"
               IsHtml(tok) == tok.tag \in {"<html>", "<HTML>"}
               head == << Tok("<head>") >> \o InjectedBlock \o << Tok("</head>") >>
           IN  /\ Len(SelectSeq(html, IsInline)) = 1
               /\ Len(SelectSeq(text, IsHead)) = 1
                  => BlockAt(html, First({i \in DOMAIN text : IsHead(text[i])}), InjectedBlock)
               /\ (Len(SelectSeq(text, IsHead)) = 0 /\ Len(SelectSeq(text, IsHtml)) > 0)
                  => BlockAt(html, First({i \in DOMAIN text : IsHtml(text[i])}), head)
               /\ (Len(SelectSeq(text, IsHead)) = 0 /\ Len(SelectSeq(text, IsHtml)) = 0)
                  => BlockAt(html, 0, head)

IsMeta(tok) == tok.tag = ViewportMeta.tag
IsComment(tok) == tok.tag = InjectedComment.tag
IsTagged(tok) == tok.class = "uuid"

C28_SlugOfHeading ==
    \A r \in ReqIds :
        reqs[r].pc = "anchored"
        => LET slug == reqs[r].slug
           IN  /\ \A i \in 1..Len(slug) : slug[i] \in SlugAlphanumeric \cup {"-"}
               /\ \A i \in 1..(Len(slug) - 1) : ~(slug[i] = "-" /\ slug[i + 1] = "-")
               /\ reqs[r].heading = HelloWorld => slug = <<"h", "e", "l", "l", "o", "-", "w", "o", "r", "l", "d">>

\* C29: every status-200 response of sendFile carries as Content-Type the mime
\* lookup of the extension of the path sendFile was called with, whichever
\* path (the file itself, a cache file, a formatted uri) is served.
C29_ContentTypeOfOriginalPath ==
    \A r \in ReqIds :
        (reqs[r].sf /\ reqs[r].status = 200)
        => reqs[r].ctype = MimeLookup(Extname(reqs[r].url.name))

\* a response that serves a cache file, of another name than the requested one
C29_Witness ==
    \E r \in ReqIds :
        /\ reqs[r].sf /\ reqs[r].status = 200
        /\ reqs[r].body.kind \in {"cache", "temp", "formatted"}
        /\ reqs[r].ctype = "text/plain"
        /\ reqs[r].url.name = "a.txt"

\* C30: for a url of another scheme than file:, ftp:, sftp:, content:, sendFile
\* reads the content once, creates the cache file of the url with it when the
\* file is absent and overwrites the file with it when present, and responds with the
\* path of that cache file, which then holds the content read.
C30_OtherSchemeWriteThrough ==
    [][\A r \in ReqIds :
          /\ OtherExists(r, "no") => reqs'[r].pc = "sf_create"
          /\ OtherExists(r, "yes") => reqs'[r].pc = "sf_write"
          /\ OtherStore(r, "ok")
             => /\ reqs'[r].status = 200
                /\ reqs'[r].body = [kind |-> "temp", of |-> reqs[r].url]
                /\ reqs'[r].reads = 1
                /\ reqs[r].store = [op |-> "readFile", of |-> reqs[r].url]
                /\ reqs'[r].store = [op |-> IF reqs[r].pc = "sf_create" THEN "createFile"
                                             ELSE "writeFile",
                                     of |-> reqs[r].url]]_vars

\* a response that serves a cache file that existed and was overwritten
C30_Witness ==
    \E r \in ReqIds :
        /\ GetProtocol(reqs[r].url.root) = "http:"
        /\ reqs[r].status = 200
        /\ reqs[r].body = [kind |-> "temp", of |-> reqs[r].url]
        /\ reqs[r].store = [op |-> "writeFile", of |-> reqs[r].url]

\* C31 as stated: once a request for a remote URI was answered from its cache
\* entry, no later request of the session for that URI starts a remote read.
C31_NoReadAfterCached ==
    [][\A r1, r2 \in ReqIds :
          (/\ r1 # r2
           /\ Remote(reqs[r1].url)
           /\ r1 \in Served(reqs[r1].sess, reqs[r1].url)
           /\ reqs'[r2].sess = reqs[r1].sess
           /\ reqs'[r2].url = reqs[r1].url)
          => reqs'[r2].reads = reqs[r2].reads]_vars

\* C31 amended: sendFile answers a remote URI 200 only by the step in which its read
\* succeeds, and a request answered after another request of the session for
\* the same URI has made one read of its own and is served the same cache
\* entry, the one named by the URI.
C31_SameEntryAfterOwnRead ==
    [][\A r2 \in ReqIds :
          (/\ reqs'[r2].sf /\ Remote(reqs'[r2].url)
           /\ reqs[r2].status = 0 /\ reqs'[r2].status = 200)
          => /\ reqs[r2].pc = "sf_read"
             /\ reqs'[r2].reads = 1
             /\ reqs'[r2].body = [kind |-> "cache", of |-> reqs[r2].url]
             /\ \A r1 \in Served(reqs[r2].sess, reqs[r2].url) :
                   reqs[r1].body = reqs'[r2].body /\ reqs'[r1] = reqs[r1]]_vars

\* a request was answered from the entry an earlier answered request had created
C31_Witness ==
    \E r1, r2 \in ReqIds :
        /\ r1 < r2
        /\ reqs[r1].url.root = "sftp://host/proj"
        /\ {r1, r2} \subseteq Served(reqs[r1].sess, reqs[r1].url)
        /\ reqs[r2].reads = 1
        /\ reqs[r2].body = reqs[r1].body
        /\ ~sessions[reqs[r1].sess].isLoading

\* C32: every status-200 response of the dispatcher that serves an HTML
\* document (the unsaved buffer of one, a .html or .htm file, or the index.html
\* put in place of a requested directory) carries the text sendHTML has
\* instrumented.
C32_HtmlIsInstrumented ==
    \A r \in ReqIds :
        (/\ reqs[r].status = 200
         /\ reqs[r].handler = "sendByExt"
         /\ Extname(reqs[r].url.name) \in {".html", ".htm"})
        => reqs[r].body.kind = "html"

\* C33: the root getRelativePath has compared the path of the document with
\* has no trailing slash, whichever strategy decided the result.
C33_RootWithoutTrailingSlash ==
    \A r \in ReqIds :
        (reqs[r].pc = "opened" /\ reqs[r].root # << >>)
        => reqs[r].root[Len(reqs[r].root)] # "/"

\* no opened folder is taken as root of the document: none is open, or the
\* location of the document does not include the url of the open one
\* (run.js:645-647)
NoFolderContains(doc) ==
    ~doc.projectFolder.open \/ ~Includes(doc.pathName, doc.projectFolder.url)

\* the uri is one of the Termux documents provider (run.js:627-632)
IsTermuxUri(uri) == Includes(uri, TermuxDocuments) /\ Includes(uri, TreeSlash)

C35_AtMostOneSend ==
    \A r \in ReqIds :
        /\ reqs[r].sends <= 1
        /\ reqs[r].status # 0 => reqs[r].sends = 1

\* three requests of a session were answered, one of them after a failed read
C35_Witness ==
    /\ Len(reqs) = MaxRequests
    /\ \A r \in ReqIds : reqs[r].sends = 1 /\ reqs[r].sf
    /\ \E r1, r2 \in ReqIds : reqs[r1].status = 404 /\ reqs[r2].status = 200 /\ reqs[r2].reads = 1

\* C37: once a newer run() has created its server, a superseded session creates
\* no server again (and so stops none, startServer being the only place where
\* one is stopped): the handles are created in the order of their sessions.
C37_SupersededStaysQuiet ==
    \A h1, h2 \in Handles : h1 < h2 => servers[h1].sess <= servers[h2].sess

\* C36: a response is sent on a server handle of the session that the request
\* was delivered to, never on the server of a newer session.
C36_ResponseOnOwnServer ==
    \A r \in ReqIds :
        reqs[r].status # 0 => servers[reqs[r].via].sess = reqs[r].sess

\* C38: the queue neither loses nor duplicates work: in every session the
\* sendFile requests submitted are those answered, those in flight and those
\* still queued, each counted once.
C38_QueueConservation ==
    \A s \in SessionIds :
        LET submitted == {r \in ReqIds : reqs[r].sess = s /\ reqs[r].sf}
            answered == {r \in submitted : reqs[r].sends = 1}
            queued == {r \in submitted : \E i \in DOMAIN sessions[s].queue :
                                            sessions[s].queue[i] = r}
        IN  /\ Cardinality(submitted)
                 = Cardinality(answered) + Cardinality(InFlight(s)) + Len(sessions[s].queue)
            /\ Cardinality(queued) = Len(sessions[s].queue)
            /\ answered \cap InFlight(s) = {}
            /\ queued \cap (answered \cup InFlight(s)) = {}

\* C39: when the url sendFileContent was asked for does not exist, the request
\* is answered 200 with the content read from the session's own document file
\* when that file exists, and 404 when it does not exist either.
C39_FallbackIsServed ==
    [][\A r \in ReqIds :
          /\ SfcFallbackExists(r, "yes")
             => /\ reqs'[r].status = 200
                /\ reqs'[r].text = "readFile"
          /\ SfcFallbackExists(r, "no") => reqs'[r].status = 404]_vars

\* C40: the request for the preview url of a document, and the request for "/"
\* alike, is resolved by the dispatcher to the document's own uri.
C40_PreviewUrlRoundTrip ==
    \A r \in ReqIds :
        (reqs[r].pc = "resolved" /\ reqs[r].filename # << >>)
        => reqs[r].url = reqs[r].uri

====
